---- MODULE Spec2Model ----
(***************************************************************************)
(* Model of the decomposed filesystem's upload session store               *)
(* (pkg/storage/utils/decomposedfs/upload/store.go) and of the             *)
(* post-processing consumer (Decomposedfs.Postprocessing).                 *)
(*                                                                         *)
(*   SpecUpload  concurrent upload sessions running CreateNodeForUpload    *)
(*               against one target node and its metadata lock file        *)
(*   SpecPP      post-processing workers draining the event channel while  *)
(*               one event is delivered at least once                      *)
(*   SpecRequest one handler running CreateNodeForUpload for a request     *)
(*               whose headers, mtime, attributes and store options are    *)
(*               fixed                                                     *)
(*   SpecCopy    the metadata copy from the live node to a version node    *)
(*   SpecFS      the driver's tree and lock operations, one call at a time *)
(*   SpecShare   the JSON share manager with concurrent Share calls        *)
(*   SpecQuota   GetQuota for any quota, tree size and free disk space     *)
(*   SpecEvents  requests passing the events interceptor                   *)
(***************************************************************************)
EXTENDS Integers, Sequences, FiniteSets, TLC

\* ------------------------------------------------------------------ bounds
NumSessions == 2      \* handlers running CreateNodeForUpload concurrently
NumConsumers == 2     \* post-processing workers (o.Events.NumConsumers)
NumCallers == 2       \* callers inside Share of the share manager at a time
MaxShares == 3        \* shares the manager holds at most
MaxBytes == 3         \* largest quota, tree size and free disk space
MaxDeliveries == 2    \* deliveries of the event (at-least-once stream)

Sessions == 1..NumSessions
Inodes == 1..(NumSessions + 1)
Consumers == 1..NumConsumers
Callers == 1..NumCallers

VARIABLES
  \* ---- CreateNodeForUpload (SpecUpload)
  spc,          \* position of each session inside CreateNodeForUpload
  lockfile,     \* inode found at the metadata lock file path, 0 = no file
  flock,        \* inode -> session holding the exclusive flock, 0 = free
  fd,           \* session -> inode of its open lock file handle, 0 = none
  unlock,       \* session -> the unlock func CreateNodeForUpload got
  err,          \* session -> error of the call so far
  sinfo,        \* session -> session.info (MetaData and persisted flag)
  old,          \* session -> node read by updateExistingNode
  node,         \* live node file and its attributes
  versions,     \* version nodes, keyed by path
  wrote,        \* session -> the attribute write of step 7 happened
  req,          \* session -> <<the inputs of its call>>, <<>> leaves them open
  \* ---- Postprocessing (SpecPP)
  ev,           \* the event the stream delivers
  ch,           \* number of copies of ev waiting in the channel
  delivered,    \* copies of ev sent so far
  closed,       \* the channel is closed
  wpc,          \* position of each worker in the loop body
  wst,          \* worker locals: failed, keepUpload
  wlog,         \* worker -> it has logged an error
  uploads,      \* upload id -> session files (.info, .bin) and metadata
  pnode,        \* the node the upload targets
  tmtime,       \* the parent's tree mtime was bumped and propagated
  cache,        \* stat cache: node ids with an entry
  stream,       \* events published by the workers
  iofault,      \* some I/O operation failed for external reasons
  \* ---- calls of clients and of the upload store (SpecStore)
  got,          \* what the last call of Get, List, GetMD or Download returned
  \* ---- the storage driver's operations and the share manager
  tree,         \* path -> the node at that path: exists, kind, lock
  shares,       \* the shares of the JSON share manager (m.model.Shares)
  callers       \* caller -> position and arguments of its Share call

uvars == <<spc, lockfile, flock, fd, unlock, err, sinfo, old, node, versions,
           wrote, req>>
pvars == <<ev, ch, delivered, closed, wpc, wst, wlog, uploads, pnode, tmtime,
           cache, stream, iofault>>
svars == <<got>>
fvars == <<tree, shares, callers>>
vars == <<uvars, pvars, svars, fvars>>

\* =====================================================================
\* Paths, attributes, etags and helpers of the upload store
\* =====================================================================

\* the upload the post-processing events are about, its target node (the
\* node all the sessions upload to), another node
UploadID == "u1"
NodeID == "n1"
OtherNodeID == "n2"
\* session.NodeParentID(), session.Filename()
NodeParentID == "p1"
Filename == "f.txt"

\* MetaData["versionsPath"] of a fresh session: MetaData starts empty
NoPath == <<"">>
\* n.InternalPath()
InternalPath == <<"node">>
\* lu.InternalPath(spaceID, n.ID + RevisionIDDelimiter + mtime in RFC3339Nano)
VersionPath(m) == <<"rev", m>>

\* node.CalculateEtag(id, mtime): one etag per mtime of the node
CalculateEtag(m) == <<"etag", m>>

\* attribute names, as the segments between the dots
OcisPrefix == <<"user", "ocis">>
IDAttr == OcisPrefix \o <<"id">>
ParentidAttr == OcisPrefix \o <<"parentid">>
NameAttr == OcisPrefix \o <<"name">>
TypeAttr == OcisPrefix \o <<"type">>
BlobIDAttr == OcisPrefix \o <<"blobid">>
BlobsizeAttr == OcisPrefix \o <<"blobsize">>
MTimeAttr == OcisPrefix \o <<"mtime">>
StatusPrefix == OcisPrefix \o <<"nodestatus">>
ChecksumPrefix == OcisPrefix \o <<"cs">>
GrantPrefix == OcisPrefix \o <<"grant">>
MetadataPrefix == OcisPrefix \o <<"md">>
\* node.ProcessingStatus + session id
ProcessingStatus(id) == <<"processing", id>>

\* strings.HasPrefix
HasPrefix(name, prefix) ==
  Len(name) >= Len(prefix) /\ SubSeq(name, 1, Len(prefix)) = prefix

\* node.Attributes: a map from attribute names to values
NoAttrs == [k \in {} |-> 0]
\* Attributes.SetString / SetInt64
SetAttr(attrs, k, v) ==
  [x \in DOMAIN attrs \cup {k} |-> IF x = k THEN v ELSE attrs[x]]
\* SetXattrs merges the given attributes into the ones the node has
MergeAttrs(have, given) ==
  [x \in DOMAIN have \cup DOMAIN given |->
     IF x \in DOMAIN given THEN given[x] ELSE have[x]]

\* session.Size(): sessions upload blobs of different sizes
Size(s) == s
\* session.MTime() of a client that sent no mtime (time.Time.IsZero)
ZeroTime == -1
\* the mtime the session writes: the client's override, or time.Now()
NewMTime(mtime, now) == IF mtime # ZeroTime THEN mtime ELSE now
\* what time.Now() returns while the sessions run
Now == 2

NoNode == [exists |-> FALSE, attrs |-> NoAttrs]
\* the attributes of a file that was uploaded at mtime m by session id
FileAttrs(id, size, m) ==
  [k \in {IDAttr, ParentidAttr, NameAttr, TypeAttr, BlobIDAttr,
          BlobsizeAttr, MTimeAttr, ChecksumPrefix \o <<"sha1">>} |->
     CASE k = IDAttr -> NodeID
       [] k = ParentidAttr -> NodeParentID
       [] k = NameAttr -> Filename
       [] k = TypeAttr -> "file"
       [] k = BlobIDAttr -> id
       [] k = BlobsizeAttr -> size
       [] k = MTimeAttr -> m
       [] OTHER -> <<"sum", id>>]
\* a node committed before any of the sessions started, with a grant and
\* user metadata
OldNode ==
  [exists |-> TRUE,
   attrs |-> MergeAttrs(FileAttrs(0, 2, 0),
                        [k \in {GrantPrefix \o <<"u", "alice">>,
                                MetadataPrefix \o <<"color">>} |-> <<"x">>])]
\* old.Blobsize as node.ReadNode fills it: 0 without the attribute
Blobsize(n) ==
  IF BlobsizeAttr \in DOMAIN n.attrs THEN n.attrs[BlobsizeAttr] ELSE 0
\* old.GetMTime: the mtime attribute, else the time of the node file
GetMTime(n) ==
  IF MTimeAttr \in DOMAIN n.attrs THEN n.attrs[MTimeAttr] ELSE 0

\* mtimes the request headers of the sessions refer to
HeaderMTimes == 0..1
Etags == {CalculateEtag(m) : m \in HeaderMTimes}
\* request headers kept in the session, as sequences of tokens; <<>> is the
\* empty header
NoHeader == <<>>
IfMatchHeaders ==
  {NoHeader, <<<<"etag", -1>>>>} \cup {<<e>> : e \in Etags}
\* if-none-match is "*" or a comma separated list of etags
Star == <<<<"*", 0>>>>
Comma == <<",", 0>>
Space == <<" ", 0>>
IfNoneMatchHeaders ==
  {NoHeader, Star} \cup {<<e>> : e \in Etags}
  \cup {<<CalculateEtag(0), Comma, CalculateEtag(1)>>,
        <<CalculateEtag(1), Comma, Space, CalculateEtag(0)>>}
\* if-unmodified-since is an RFC3339Nano time or does not parse
Unparsable == <<"unparsable", 0>>
IfUnmodifiedSinceHeaders ==
  {NoHeader, Unparsable} \cup {<<"t", m>> : m \in HeaderMTimes}
\* remaining quota of the space: none, one byte, plenty
Quotas == {0, 1, NumSessions + 2}

\* strings.Split(header, sep) over the tokens of the header
RECURSIVE Split(_, _)
Split(header, sep) ==
  IF \A i \in 1..Len(header) : header[i] # sep THEN <<header>>
  ELSE LET i == CHOOSE j \in 1..Len(header) :
                  header[j] = sep /\ \A k \in 1..(j - 1) : header[k] # sep
       IN <<SubSeq(header, 1, i - 1)>>
          \o Split(SubSeq(header, i + 1, Len(header)), sep)

\* the initial attributes FinishUpload passes: the checksums of the upload,
\* and for a caller that sets them, values for the technical keys
CallerAttrs(s, technical) ==
  LET sums == [k \in {ChecksumPrefix \o <<"sha1">>} |-> <<"sum", s>>] IN
  IF technical
  THEN MergeAttrs(sums,
         [k \in {IDAttr, ParentidAttr, NameAttr, TypeAttr, BlobIDAttr,
                 BlobsizeAttr, MTimeAttr, StatusPrefix} |->
            CASE k = TypeAttr -> "container"
              [] k \in {BlobsizeAttr, MTimeAttr, BlobIDAttr} -> -7
              [] k = StatusPrefix -> <<"caller">>
              [] OTHER -> "caller"])
  ELSE sums

\* the inputs of the call of a slot: for each input, the set of values it
\* may have
\*   ifMatch, ifNoneMatch, ifUnmodifiedSince   request headers of the session
\*   mtime                                     session.MTime()
\*   technical                                 the caller's initial attributes
\*                                             set the technical keys
\*   disableVersioning                         the store's option
\*   io                                        results of the file system
\*                                             calls that can fail
AnyRequest ==
  [ifMatch |-> IfMatchHeaders, ifNoneMatch |-> IfNoneMatchHeaders,
   ifUnmodifiedSince |-> IfUnmodifiedSinceHeaders,
   mtime |-> {ZeroTime, 1}, technical |-> BOOLEAN,
   disableVersioning |-> BOOLEAN, io |-> BOOLEAN]
\* the calls with every input fixed; io is fixed to "no call fails" or left
\* open
Requests ==
  [ifMatch : {{h} : h \in IfMatchHeaders},
   ifNoneMatch : {{h} : h \in IfNoneMatchHeaders},
   ifUnmodifiedSince : {{h} : h \in IfUnmodifiedSinceHeaders},
   mtime : {{ZeroTime}, {1}}, technical : {{TRUE}, {FALSE}},
   disableVersioning : {{TRUE}, {FALSE}}, io : {{TRUE}, BOOLEAN}]

\* the inputs of the calls of slot s in SpecUpload: open, but for the mtime
\* (the clients send none and the node gets the time of the write)
OpenRequest == [AnyRequest EXCEPT !.mtime = {ZeroTime}]
In(s) == IF req[s] = <<>> THEN OpenRequest ELSE req[s][1]

\* node.CheckQuota(spaceRoot, overwrite, oldSize, newSize) against the
\* space's remaining bytes
CheckQuota(remaining, overwrite, oldSize, newSize) ==
  IF overwrite /\ newSize <= oldSize THEN TRUE
  ELSE newSize - (IF overwrite THEN oldSize ELSE 0) <= remaining

\* open(2) with O_CREATE: the inode at the path, or a new inode that no path
\* and no open handle refers to
FreeInode == CHOOSE i \in Inodes :
               /\ i # lockfile /\ \A s \in Sessions : fd[s] # i
               /\ \A j \in Inodes :
                    (j # lockfile /\ \A s \in Sessions : fd[s] # j) => i <= j
OpenInode == IF lockfile = 0 THEN FreeInode ELSE lockfile

\* the session holds the flock on the lock file it opened
Holds(s) == fd[s] # 0 /\ flock[fd[s]] = s

AfterReturnNoDefer(u, e) == IF e = "" THEN "setAttrs" ELSE "done"

AfterReturnWritesAnyway(u, e) == IF u = "nil" THEN "done" ELSE "setAttrs"

\* the deferred func of CreateNodeForUpload has nothing to unlock when the
\* unlock func is nil (store.go:228-231)
AfterReturn(u, e) ==
  IF e = "" THEN "setAttrs" ELSE IF u = "nil" THEN "done" ELSE "defer"

\* return from initNewNode / updateExistingNode with (unlock, err); err is
\* the error of the call while the call runs
Return(s, u, e) ==
  /\ unlock' = [unlock EXCEPT ![s] = u]
  /\ err' = [err EXCEPT ![s] = IF AfterReturn(u, e) = "done" THEN "" ELSE e]
  /\ spc' = [spc EXCEPT ![s] = AfterReturn(u, e)]

\* store.New: MetaData is empty; cleanup: Cleanup was called for the session
NewSession == [sizeDiff |-> <<>>, versionsPath |-> NoPath,
               persisted |-> FALSE, cleanup |-> FALSE]
\* the caller of CreateNodeForUpload calls Cleanup with revert when the call
\* failed and goes on with the upload otherwise; the handler then has no
\* session in hand. Reverting restores the attributes of a target that
\* existed from the version node the session recorded, and no failed call
\* has recorded one
FinishUpload(e) ==
  IF e = "" THEN NewSession ELSE [NewSession EXCEPT !.cleanup = TRUE]
NoOld == [blobsize |-> 0, mtime |-> 0]
\* =====================================================================
\* OcisStore.CreateNodeForUpload, one action per step of session s
\* =====================================================================

\* the request handler of slot s enters CreateNodeForUpload with a fresh
\* session (its previous call, if any, has returned) and reads the space
\* root (store.go:184-202)
CreateNodeForUpload(s) ==
  /\ spc[s] = "done"
  /\ \E ok \in In(s).io :
       /\ spc' = [spc EXCEPT ![s] = IF ok THEN "checkLock" ELSE "done"]
       /\ sinfo' = [sinfo EXCEPT ![s] =
                      IF ok THEN NewSession ELSE FinishUpload("InternalError")]
  /\ UNCHANGED <<lockfile, flock, fd, unlock, err, old, node, versions,
                 wrote, req, pvars, svars, fvars>>

\* n.CheckLock(ctx): Locked unless the context carries the node's lock id;
\* then the branch on session.NodeExists(), which is what InitiateUpload
\* recorded (store.go:204-210)
CheckLock(s) ==
  /\ spc[s] = "checkLock"
  /\ \E next \in
          \* lockID: the lock other clients hold on the node at this moment
          {IF lockID = "" \/ lockID = ctxLockID
           THEN IF nodeExists THEN "uOpen" ELSE "iLock"
           ELSE "done" :
             lockID \in {"", "L"}, ctxLockID \in {"", "L"},
             nodeExists \in BOOLEAN} :
       /\ spc' = [spc EXCEPT ![s] = next]
       /\ sinfo' = [sinfo EXCEPT ![s] =
                      IF next = "done" THEN FinishUpload("Locked") ELSE @]
       /\ UNCHANGED err
  /\ UNCHANGED <<lockfile, flock, fd, unlock, old, node, versions,
                 wrote, req, pvars, svars, fvars>>

\* lockedfile.OpenFile(LockfilePath, O_RDWR|O_CREATE), first half: open(2)
\* finds the inode at the path or creates a new one (store.go:302)
OpenLockfile(s) ==
  /\ spc[s] = "uOpen"
  /\ \E ok \in In(s).io :
       IF ok
       THEN /\ fd' = [fd EXCEPT ![s] = OpenInode]
            /\ lockfile' = OpenInode
            /\ spc' = [spc EXCEPT ![s] = "uFlock"]
            /\ UNCHANGED <<unlock, err, sinfo>>
       ELSE /\ Return(s, "nil", "IOError")
            /\ sinfo' = [sinfo EXCEPT ![s] = FinishUpload("IOError")]
            /\ UNCHANGED <<fd, lockfile>>
  /\ UNCHANGED <<flock, old, node, versions, wrote, req, pvars, svars, fvars>>

\* variants with a plausible fault are defined in front of the definition
\* they replace; the properties below must tell them from the code
FlockSkip(s) ==
  /\ spc[s] = "uFlock"
  /\ spc' = [spc EXCEPT ![s] = "uRead"]
  /\ unlock' = [unlock EXCEPT ![s] = "update"]
  /\ UNCHANGED <<flock, lockfile, fd, err, sinfo, old, node, versions,
                 wrote, req, pvars, svars, fvars>>

\* lockedfile.OpenFile, second half: flock(LOCK_EX) blocks until the inode
\* of the open handle is free (store.go:302)
Flock(s) ==
  /\ spc[s] = "uFlock"
  /\ flock[fd[s]] = 0
  /\ flock' = [flock EXCEPT ![fd[s]] = s]
  /\ spc' = [spc EXCEPT ![s] = "uRead"]
  /\ unlock' = [unlock EXCEPT ![s] = "update"]
  /\ UNCHANGED <<lockfile, fd, err, sinfo, old, node, versions,
                 wrote, req, pvars, svars, fvars>>

PreconditionIfMatchIgnored(ifMatch, ifNoneMatch, ifUnmodifiedSince, oldNodeMtime) ==
  LET oldNodeEtag == CalculateEtag(oldNodeMtime) IN
  IF ifNoneMatch # NoHeader /\ ifNoneMatch = Star THEN "Aborted"
  ELSE IF ifNoneMatch # NoHeader
          /\ LET tags == Split(ifNoneMatch, Comma)
             IN \E i \in 1..Len(tags) : tags[i] = <<oldNodeEtag>>
       THEN "Aborted"
  ELSE IF ifUnmodifiedSince # NoHeader /\ ifUnmodifiedSince = Unparsable
       THEN "InternalError"
  ELSE IF ifUnmodifiedSince # NoHeader /\ oldNodeMtime > ifUnmodifiedSince[2]
       THEN "Aborted"
  ELSE ""

PreconditionNotBefore(ifMatch, ifNoneMatch, ifUnmodifiedSince, oldNodeMtime) ==
  LET oldNodeEtag == CalculateEtag(oldNodeMtime) IN
  IF ifMatch # NoHeader /\ ifMatch # <<oldNodeEtag>> THEN "Aborted"
  ELSE IF ifNoneMatch # NoHeader /\ ifNoneMatch = Star THEN "Aborted"
  ELSE IF ifNoneMatch # NoHeader
          /\ LET tags == Split(ifNoneMatch, Comma)
             IN \E i \in 1..Len(tags) : tags[i] = <<oldNodeEtag>>
       THEN "Aborted"
  ELSE IF ifUnmodifiedSince # NoHeader /\ ifUnmodifiedSince = Unparsable
       THEN "InternalError"
  ELSE IF ifUnmodifiedSince # NoHeader /\ oldNodeMtime >= ifUnmodifiedSince[2]
       THEN "Aborted"
  ELSE ""

\* the precondition checks of updateExistingNode (store.go:329-359)
Precondition(ifMatch, ifNoneMatch, ifUnmodifiedSince, oldNodeMtime) ==
  LET oldNodeEtag == CalculateEtag(oldNodeMtime) IN
  IF ifMatch # NoHeader /\ ifMatch # <<oldNodeEtag>> THEN "Aborted"
  ELSE IF ifNoneMatch # NoHeader /\ ifNoneMatch = Star THEN "Aborted"
  ELSE IF ifNoneMatch # NoHeader
          /\ LET tags == Split(ifNoneMatch, Comma)
             IN \E i \in 1..Len(tags) : tags[i] = <<oldNodeEtag>>
       THEN "Aborted"
  ELSE IF ifUnmodifiedSince # NoHeader /\ ifUnmodifiedSince = Unparsable
       THEN "InternalError"
  ELSE IF ifUnmodifiedSince # NoHeader /\ oldNodeMtime > ifUnmodifiedSince[2]
       THEN "Aborted"
  ELSE ""

\* what lines 315-359 of updateExistingNode return for the node as it is
\* now, for some quota of the space and the request headers of the session
ReadOldResults(s) ==
  LET quota == {CheckQuota(remaining, TRUE, Blobsize(node), Size(s)) :
                  remaining \in Quotas}
  IN {"InsufficientStorage" : q \in quota \ {TRUE}}
     \cup IF TRUE \notin quota THEN {}
          ELSE IF ~node.exists THEN {"NotFound"}   \* old.GetMTime fails
          ELSE {Precondition(ifMatch, ifNoneMatch, ifUnmodifiedSince,
                             GetMTime(node)) :
                  ifMatch \in In(s).ifMatch,
                  ifNoneMatch \in In(s).ifNoneMatch,
                  ifUnmodifiedSince \in In(s).ifUnmodifiedSince}

\* updateExistingNode: read the old node, check quota, read its mtime and
\* check the preconditions (store.go:315-359)
ReadOld(s) ==
  /\ spc[s] = "uRead"
  /\ \E e \in ReadOldResults(s) :
       IF e = ""
       THEN /\ old' = [old EXCEPT ![s] = [blobsize |-> Blobsize(node),
                                          mtime |-> GetMTime(node)]]
            /\ spc' = [spc EXCEPT ![s] = "uVersion"]
            /\ UNCHANGED <<unlock, err>>
       ELSE /\ Return(s, unlock[s], e)
            /\ UNCHANGED old
  /\ UNCHANGED <<lockfile, flock, fd, sinfo, node, versions, wrote,
                 req, pvars, svars, fvars>>

CopyFilterWithName(attributeName) ==
  \/ HasPrefix(attributeName, ChecksumPrefix)
  \/ attributeName \in {TypeAttr, BlobIDAttr, BlobsizeAttr, MTimeAttr,
                        NameAttr}

\* the filter updateExistingNode hands to CopyMetadataWithSourceLock: the
\* value is kept, the attribute is copied when the filter says so
\* (store.go:371-377)
CopyFilter(attributeName) ==
  \/ HasPrefix(attributeName, ChecksumPrefix)
  \/ attributeName = TypeAttr
  \/ attributeName = BlobIDAttr
  \/ attributeName = BlobsizeAttr
  \/ attributeName = MTimeAttr

\* CopyMetadataWithSourceLock(source, target, filter): the attributes of
\* the source the filter selects
CopyMetadata(attrs) ==
  [k \in {x \in DOMAIN attrs : CopyFilter(x)} |-> attrs[k]]

SizeDiffOfNew(fsize, oldBlobsize) == fsize

\* sizeDiff of an overwrite (store.go:381)
SizeDiff(fsize, oldBlobsize) == fsize - oldBlobsize

\* updateExistingNode: create the version node, copy the metadata, record
\* sizeDiff and versionsPath, set the version's file times (store.go:361-389)
CreateVersion(s) ==
  /\ spc[s] = "uVersion"
  /\ \E disableVersioning \in In(s).disableVersioning, ok \in In(s).io :
       LET versionPath == IF disableVersioning THEN InternalPath
                          ELSE VersionPath(old[s].mtime)
           \* os.Create and the copy use the path the session had recorded
           \* so far, not versionPath
           createPath == sinfo[s].versionsPath
       IN IF ~disableVersioning /\ (createPath = NoPath \/ ~ok)
          THEN /\ Return(s, unlock[s], "IOError")
               /\ UNCHANGED <<sinfo, versions>>
          ELSE /\ versions' =
                    IF ~disableVersioning /\ createPath[1] = "rev"
                    THEN {v \in versions : v.path # createPath}
                         \cup {[path |-> createPath,
                                attrs |-> CopyMetadata(node.attrs),
                                ftime |-> IF createPath = versionPath
                                          THEN old[s].mtime ELSE Now]}
                    ELSE versions
               /\ sinfo' = [sinfo EXCEPT
                     ![s].sizeDiff = <<SizeDiff(Size(s), old[s].blobsize)>>,
                     ![s].versionsPath = versionPath]
               \* os.Chtimes(versionsPath, oldNodeMtime, oldNodeMtime)
               /\ IF ok /\ (versionPath = InternalPath
                            \/ \E v \in versions' : v.path = versionPath)
                  THEN Return(s, unlock[s], "")
                  ELSE Return(s, unlock[s], "InternalError")
  /\ old' = [old EXCEPT ![s] = NoOld]
  /\ UNCHANGED <<lockfile, flock, fd, node, wrote, req, pvars, svars, fvars>>

\* initNewNode: os.MkdirAll of the node's directory, then
\* MetadataBackend().Lock(path) acquires the exclusive lock of the node's
\* lock file, or fails (store.go:272-280)
BackendLock(s) ==
  /\ spc[s] = "iLock"
  /\ \/ /\ (IF lockfile = 0 THEN TRUE ELSE flock[lockfile] = 0)
        /\ LET i == OpenInode IN
             /\ lockfile' = i
             /\ fd' = [fd EXCEPT ![s] = i]
             /\ flock' = [flock EXCEPT ![i] = s]
        /\ unlock' = [unlock EXCEPT ![s] = "init"]
        /\ spc' = [spc EXCEPT ![s] = "iCreate"]
        /\ UNCHANGED <<err, sinfo>>
     \/ /\ FALSE \in In(s).io
        /\ Return(s, "nil", "IOError")
        /\ sinfo' = [sinfo EXCEPT ![s] = FinishUpload("IOError")]
        /\ UNCHANGED <<lockfile, fd, flock>>
  /\ UNCHANGED <<old, node, versions, wrote, req, pvars, svars, fvars>>

CreateExclusiveTruncates(s) ==
  /\ spc[s] = "iCreate"
  /\ node' = IF node.exists THEN node ELSE [exists |-> TRUE, attrs |-> NoAttrs]
  /\ spc' = [spc EXCEPT ![s] = "iQuota"]
  /\ UNCHANGED <<unlock, err>>
  /\ UNCHANGED <<lockfile, flock, fd, sinfo, old, versions, wrote,
                 req, pvars, svars, fvars>>

\* initNewNode: os.OpenFile(path, O_CREATE|O_EXCL) touches the node file
\* (store.go:283-287)
CreateExclusive(s) ==
  /\ spc[s] = "iCreate"
  /\ IF node.exists
     THEN /\ Return(s, unlock[s], "AlreadyExists")
          /\ UNCHANGED node
     ELSE /\ node' = [exists |-> TRUE, attrs |-> NoAttrs]
          /\ spc' = [spc EXCEPT ![s] = "iQuota"]
          /\ UNCHANGED <<unlock, err>>
  /\ UNCHANGED <<lockfile, flock, fd, sinfo, old, versions, wrote,
                 req, pvars, svars, fvars>>

\* initNewNode: node.CheckQuota(spaceRoot, false, 0, fsize), then sizeDiff
\* (store.go:289-295)
InitQuota(s) ==
  /\ spc[s] = "iQuota"
  /\ \E remaining \in Quotas :
       IF CheckQuota(remaining, FALSE, 0, Size(s))
       THEN /\ sinfo' = [sinfo EXCEPT ![s].sizeDiff = <<Size(s)>>]
            /\ Return(s, unlock[s], "")
       ELSE /\ Return(s, unlock[s], "InsufficientStorage")
            /\ UNCHANGED sinfo
  /\ UNCHANGED <<lockfile, flock, fd, old, node, versions, wrote,
                 req, pvars, svars, fvars>>

TechnicalAttrsKeepStatus(s, initAttrs, mtime) ==
  LET a1 == SetAttr(initAttrs, IDAttr, NodeID)
      a2 == SetAttr(a1, MTimeAttr, mtime)
      a3 == SetAttr(a2, TypeAttr, "file")
      a4 == SetAttr(a3, ParentidAttr, NodeParentID)
      a5 == SetAttr(a4, NameAttr, Filename)
      a6 == SetAttr(a5, BlobIDAttr, s)
  IN SetAttr(a6, BlobsizeAttr, Size(s))

\* "overwrite technical information": the keys CreateNodeForUpload sets in
\* the initial attributes; the blob id of the node is the session id
\* (store.go:187-197, 247-255)
TechnicalAttrs(s, initAttrs, mtime) ==
  LET a1 == SetAttr(initAttrs, IDAttr, NodeID)
      a2 == SetAttr(a1, MTimeAttr, mtime)
      a3 == SetAttr(a2, TypeAttr, "file")
      a4 == SetAttr(a3, ParentidAttr, NodeParentID)
      a5 == SetAttr(a4, NameAttr, Filename)
      a6 == SetAttr(a5, BlobIDAttr, s)
      a7 == SetAttr(a6, BlobsizeAttr, Size(s))
  IN SetAttr(a7, StatusPrefix, ProcessingStatus(s))

\* CreateNodeForUpload: overwrite the technical attributes of the live node,
\* then persist the session (store.go:241-267)
SetXattrs(s) ==
  /\ spc[s] = "setAttrs"
  /\ \E ok \in In(s).io :
       IF ok
       THEN /\ \E attrs \in
                    {TechnicalAttrs(s, CallerAttrs(s, technical),
                                    NewMTime(mtime, Now)) :
                       mtime \in In(s).mtime,
                       technical \in In(s).technical} :
                 node' = [exists |-> TRUE,
                          attrs |-> MergeAttrs(node.attrs, attrs)]
            /\ wrote' = [wrote EXCEPT ![s] = TRUE]
            /\ \E persisted \in In(s).io :
                 /\ sinfo' = [sinfo EXCEPT ![s].persisted = persisted]
                 /\ err' = [err EXCEPT ![s] =
                              IF persisted THEN "" ELSE "IOError"]
       ELSE /\ err' = [err EXCEPT ![s] = "InternalError"]
            /\ UNCHANGED <<node, wrote, sinfo>>
  /\ spc' = [spc EXCEPT ![s] = "defer"]
  /\ UNCHANGED <<lockfile, flock, fd, unlock, old, versions, req, pvars, svars, fvars>>

\* updateExistingNode's unlock, f.Close(): closing the handle drops its flock
\* (store.go:308)
CloseLockfile(s) ==
  /\ spc[s] = "defer"
  /\ unlock[s] = "update"
  /\ flock' = [flock EXCEPT ![fd[s]] = IF @ = s THEN 0 ELSE @]
  /\ fd' = [fd EXCEPT ![s] = 0]
  /\ spc' = [spc EXCEPT ![s] = "uRemove"]
  /\ UNCHANGED <<lockfile, unlock, err, sinfo, old, node, versions, wrote,
                 req, pvars, svars, fvars>>

\* updateExistingNode's unlock, os.Remove(LockfilePath): unlinks whatever
\* file is at the path now; CreateNodeForUpload returns to its caller
\* (store.go:312)
RemoveLockfile(s) ==
  /\ spc[s] = "uRemove"
  /\ lockfile' = 0
  /\ spc' = [spc EXCEPT ![s] = "done"]
  /\ sinfo' = [sinfo EXCEPT ![s] = FinishUpload(err[s])]
  /\ unlock' = [unlock EXCEPT ![s] = "nil"]
  /\ wrote' = [wrote EXCEPT ![s] = FALSE]
  /\ err' = [err EXCEPT ![s] = ""]
  /\ UNCHANGED <<flock, fd, old, node, versions, req, pvars, svars, fvars>>

\* the unlock handle of MetadataBackend().Lock releases the lock;
\* CreateNodeForUpload returns to its caller
BackendUnlock(s) ==
  /\ spc[s] = "defer"
  /\ unlock[s] = "init"
  /\ flock' = [flock EXCEPT ![fd[s]] = IF @ = s THEN 0 ELSE @]
  /\ fd' = [fd EXCEPT ![s] = 0]
  /\ spc' = [spc EXCEPT ![s] = "done"]
  /\ sinfo' = [sinfo EXCEPT ![s] = FinishUpload(err[s])]
  /\ unlock' = [unlock EXCEPT ![s] = "nil"]
  /\ wrote' = [wrote EXCEPT ![s] = FALSE]
  /\ err' = [err EXCEPT ![s] = ""]
  /\ UNCHANGED <<lockfile, old, node, versions, req, pvars, svars, fvars>>

UInitIdle ==
  /\ spc = [s \in Sessions |-> "done"]
  /\ lockfile = 0
  /\ flock = [i \in Inodes |-> 0]
  /\ fd = [s \in Sessions |-> 0]
  /\ unlock = [s \in Sessions |-> "nil"]
  /\ err = [s \in Sessions |-> ""]
  /\ sinfo = [s \in Sessions |-> NewSession]
  /\ old = [s \in Sessions |-> NoOld]
  /\ versions = {}
  /\ wrote = [s \in Sessions |-> FALSE]

\* the inputs of every call are open
UInit ==
  /\ UInitIdle
  /\ req = [s \in Sessions |-> <<>>]
  /\ node \in {NoNode, OldNode}

UStep(s) ==
  \/ CreateNodeForUpload(s)
  \/ CheckLock(s)
  \/ OpenLockfile(s)
  \/ Flock(s)
  \/ ReadOld(s)
  \/ CreateVersion(s)
  \/ BackendLock(s)
  \/ CreateExclusive(s)
  \/ InitQuota(s)
  \/ SetXattrs(s)
  \/ CloseLockfile(s)
  \/ RemoveLockfile(s)
  \/ BackendUnlock(s)

UNext == \E s \in Sessions : UStep(s)

\* every attribute a node can carry, with a value
AllAttrs ==
  MergeAttrs(OldNode.attrs,
             [k \in {StatusPrefix, ChecksumPrefix \o <<"adler32">>} |->
                <<"y">>])

\* lu.CopyMetadataWithSourceLock(targetPath, versionPath, filter) on its
\* own: the version node gets the attributes of the live node that the
\* filter of updateExistingNode selects (store.go:370-379)
CopyMetadataWithSourceLock ==
  /\ versions = {}
  /\ versions' = {[path |-> VersionPath(GetMTime(node)),
                   attrs |-> CopyMetadata(node.attrs),
                   ftime |-> GetMTime(node)]}
  /\ UNCHANGED <<spc, lockfile, flock, fd, unlock, err, sinfo, old, node,
                 wrote, req, pvars, svars, fvars>>

\* a live node with any of the attributes
CInit ==
  /\ UInitIdle
  /\ req = [s \in Sessions |-> <<>>]
  /\ \E names \in SUBSET DOMAIN AllAttrs :
       node = [exists |-> TRUE, attrs |-> [k \in names |-> AllAttrs[k]]]

CNext == CopyMetadataWithSourceLock

\* the handler that serves the request whose inputs are fixed
Handler == 1

\* one request at a time, every input of the call fixed
RInit ==
  /\ UInitIdle
  /\ \E r \in Requests : req = [s \in Sessions |-> <<r>>]
  /\ node \in {NoNode, OldNode,
               [OldNode EXCEPT !.attrs[MTimeAttr] = 1]}

RNext == UStep(Handler)

\* =====================================================================
\* Upload sessions on disk, as the post-processing consumer sees them
\* =====================================================================

\* mtime of the content the node had before the upload, of the upload, and
\* of a revision older than both
OldMTime == 1
UploadMTime == 2
OlderMTime == 0

\* no call has returned yet
NoCall == [op |-> "", id |-> "", err |-> "", val |-> <<>>]

\* OcisStore.Get, the error it returns: NotFound without the .info record or
\* without the .bin file (store.go:114-149)
Get(id) ==
  IF id \notin DOMAIN uploads THEN "NotFound"
  ELSE IF ~uploads[id].info \/ ~uploads[id].bin THEN "NotFound"
  ELSE "ok"

GetSessionStoredOffset(id) == [ID |-> id, Offset |-> uploads[id].offset]

\* OcisStore.Get, the session it returns without an error: the persisted
\* record with session.info.Offset = stat.Size() of the bin file
\* (store.go:120-148)
GetSession(id) == [ID |-> id, Offset |-> uploads[id].size]

\* Upload.Finalize: moves the bytes of the chunk bin into the blob store and
\* clears the processing status; fails without the bin
FinalizeOK(up) == up.bin
Finalize(n, up) ==
  [node |-> [n EXCEPT !.blob = TRUE, !.status = ""],
   up |-> [up EXCEPT !.bin = FALSE]]

\* session.Cleanup(revertNodeMetadata, cleanBin, cleanInfo): restores the
\* prior attributes from the version node if the target existed before,
\* deletes the bin and the info record
SessionCleanup(n, up, revertNodeMetadata, cleanBin, cleanInfo) ==
  [node |-> IF revertNodeMetadata /\ up.existed /\ n.revs # {}
            THEN [n EXCEPT !.mtime = OldMTime]
            ELSE n,
   up |-> [up EXCEPT !.bin = IF cleanBin THEN FALSE ELSE @,
                     !.info = IF cleanInfo THEN FALSE ELSE @]]

\* n.UnmarkProcessing(session.ID())
UnmarkProcessing(n, id) == IF n.status = id THEN [n EXCEPT !.status = ""] ELSE n

CleanupPassesKeep(n, up, id, revertNodeMetadata, keepUpload, unmarkPostprocessing) ==
  LET r == SessionCleanup(n, up, revertNodeMetadata, keepUpload, keepUpload)
  IN [node |-> IF unmarkPostprocessing /\ r.node.exists
               THEN UnmarkProcessing(r.node, id) ELSE r.node,
      up |-> r.up]

\* OcisStore.Cleanup (store.go:160-179)
Cleanup(n, up, id, revertNodeMetadata, keepUpload, unmarkPostprocessing) ==
  LET r == SessionCleanup(n, up, revertNodeMetadata, ~keepUpload, ~keepUpload)
  IN [node |-> IF unmarkPostprocessing /\ r.node.exists
               THEN UnmarkProcessing(r.node, id) ELSE r.node,
      up |-> r.up]

\* the consumer's cleanup call unsets the processing status
UnmarkPostprocessing == TRUE

\* events --------------------------------------------------------------
Outcomes == {"continue", "abort", "delete", "retry"}
PostprocessingFinished ==
  [type : {"PostprocessingFinished"}, UploadID : {UploadID, "u0"},
   Outcome : Outcomes, ResourceID : {NodeID}, ErrorMsg : {""},
   ExecutingUser : {"alice"}]
VirusscanFinished ==
  [type : {"VirusscanFinished"}, UploadID : {"", UploadID},
   Outcome : {"continue", "delete"}, ResourceID : {NodeID},
   ErrorMsg : {"", "scan failed"}, ExecutingUser : {"alice"}]
Events == PostprocessingFinished \cup VirusscanFinished

\* the reference UploadReady carries: the space root and the path of the
\* upload relative to it
FileRef(id) == [SpaceId |-> "s1", OpaqueId |-> "s1", Path |-> <<"./dir", id>>]
UploadReady(id, failed, user) ==
  [UploadID |-> id, Failed |-> failed, ExecutingUser |-> user,
   FileRef |-> FileRef(id)]

\* =====================================================================
\* Decomposedfs.Postprocessing: the loop of worker w, one action per step
\* =====================================================================

IsPPF == ev.type = "PostprocessingFinished"
IsVSF == ev.type = "VirusscanFinished"

\* var failed, keepUpload bool; versions: the revisions remembered by the
\* virus scan branch
NoLocals == [failed |-> FALSE, keepUpload |-> FALSE, versions |-> {}]

LogAndReturn(w) ==
  /\ wlog' = [wlog EXCEPT ![w] = TRUE]
  /\ wpc' = [wpc EXCEPT ![w] = "stopped"]

\* log.Error()...; continue
LogAndContinue(w) ==
  /\ wlog' = [wlog EXCEPT ![w] = TRUE]
  /\ wpc' = [wpc EXCEPT ![w] = "idle"]

\* for event := range ch: take the next event and switch on its type
Consume(w) ==
  /\ wpc[w] = "idle"
  /\ ch > 0
  /\ ch' = ch - 1
  /\ wpc' = [wpc EXCEPT ![w] = IF IsPPF THEN "get" ELSE "scan"]
  /\ wst' = [wst EXCEPT ![w] = NoLocals]
  /\ UNCHANGED <<ev, delivered, closed, wlog, uploads, pnode, tmtime, cache,
                 stream, iofault, uvars, svars, fvars>>

\* range over a closed and drained channel ends the loop
LeaveLoop(w) ==
  /\ wpc[w] = "idle"
  /\ closed /\ ch = 0
  /\ wpc' = [wpc EXCEPT ![w] = "stopped"]
  /\ UNCHANGED <<ev, ch, delivered, closed, wst, wlog, uploads, pnode, tmtime,
                 cache, stream, iofault, uvars, svars, fvars>>

\* upload.Get(ctx, ev.UploadID, ...) (lines 223-227)
GetUpload(w) ==
  /\ wpc[w] = "get"
  /\ \E ok \in BOOLEAN :
       /\ iofault' = (iofault \/ ~ok)
       /\ IF ok /\ Get(ev.UploadID) = "ok"
          THEN /\ wpc' = [wpc EXCEPT ![w] = "outcome"]
               /\ UNCHANGED wlog
          ELSE LogAndContinue(w)
  /\ UNCHANGED <<ev, ch, delivered, closed, wst, uploads, pnode, tmtime, cache,
                 stream, uvars, svars, fvars>>

\* failed and keepUpload after switch ev.Outcome, where finalized tells
\* that up.Finalize() returned no error (lines 229-249)
OutcomeFlagsKeepOnDelete(outcome, finalized) ==
  CASE outcome = "abort" -> [failed |-> TRUE, keepUpload |-> TRUE]
    [] outcome = "continue" -> [failed |-> ~finalized, keepUpload |-> ~finalized]
    [] outcome = "delete" -> [failed |-> TRUE, keepUpload |-> TRUE]
    [] OTHER -> [failed |-> TRUE, keepUpload |-> TRUE]

OutcomeFlagsDeleteSucceeds(outcome, finalized) ==
  CASE outcome = "abort" -> [failed |-> TRUE, keepUpload |-> TRUE]
    [] outcome = "continue" -> [failed |-> ~finalized, keepUpload |-> ~finalized]
    [] outcome = "delete" -> [failed |-> FALSE, keepUpload |-> FALSE]
    [] OTHER -> [failed |-> TRUE, keepUpload |-> TRUE]

OutcomeFlagsDropOnAbort(outcome, finalized) ==
  CASE outcome = "abort" -> [failed |-> TRUE, keepUpload |-> FALSE]
    [] outcome = "continue" -> [failed |-> ~finalized, keepUpload |-> ~finalized]
    [] outcome = "delete" -> [failed |-> TRUE, keepUpload |-> FALSE]
    [] OTHER -> [failed |-> TRUE, keepUpload |-> TRUE]

OutcomeFlagsNoFallthrough(outcome, finalized) ==
  CASE outcome = "abort" -> [failed |-> TRUE, keepUpload |-> TRUE]
    [] outcome = "continue" -> [failed |-> ~finalized, keepUpload |-> FALSE]
    [] outcome = "delete" -> [failed |-> TRUE, keepUpload |-> FALSE]
    [] OTHER -> [failed |-> FALSE, keepUpload |-> FALSE]

OutcomeFlags(outcome, finalized) ==
  CASE outcome = "abort" -> [failed |-> TRUE, keepUpload |-> TRUE]
    [] outcome = "continue" -> [failed |-> ~finalized, keepUpload |-> ~finalized]
    [] outcome = "delete" -> [failed |-> TRUE, keepUpload |-> FALSE]
    [] OTHER -> [failed |-> TRUE, keepUpload |-> TRUE]

SwitchOutcomeFinalizesFirst(w) ==
  /\ wpc[w] = "outcome"
  /\ wpc' = [wpc EXCEPT ![w] = "readNode"]
  /\ \E ok \in BOOLEAN :
       LET finalized == ok /\ FinalizeOK(uploads[ev.UploadID])
           flags == OutcomeFlags(ev.Outcome, finalized)
           r == Finalize(pnode, uploads[ev.UploadID])
       IN /\ ev.Outcome # "continue" => ok
          /\ iofault' = (iofault \/ ~ok)
          /\ wst' = [wst EXCEPT ![w].failed = flags.failed,
                                ![w].keepUpload = flags.keepUpload]
          /\ wlog' = [wlog EXCEPT ![w] =
                        @ \/ (ev.Outcome = "continue" /\ ~finalized)
                          \/ ev.Outcome \notin {"abort", "continue", "delete"}]
          /\ pnode' = IF finalized THEN r.node ELSE pnode
          /\ uploads' = IF finalized
                        THEN [uploads EXCEPT ![ev.UploadID] = r.up]
                        ELSE uploads
  /\ UNCHANGED <<ev, ch, delivered, closed, tmtime, cache, stream, uvars,
                 svars, fvars>>

\* switch ev.Outcome: up.Finalize() on continue, an error log for a failed
\* finalize and for an unknown outcome (lines 234-249)
SwitchOutcome(w) ==
  /\ wpc[w] = "outcome"
  /\ wpc' = [wpc EXCEPT ![w] = "readNode"]
  /\ \E ok \in BOOLEAN :
       LET finalized == ok /\ FinalizeOK(uploads[ev.UploadID])
           flags == OutcomeFlags(ev.Outcome, finalized)
           r == Finalize(pnode, uploads[ev.UploadID])
       IN /\ ev.Outcome # "continue" => ok
          /\ iofault' = (iofault \/ ~ok)
          /\ wst' = [wst EXCEPT ![w].failed = flags.failed,
                                ![w].keepUpload = flags.keepUpload]
          /\ wlog' = [wlog EXCEPT ![w] =
                        @ \/ (ev.Outcome = "continue" /\ ~finalized)
                          \/ ev.Outcome \notin {"abort", "continue", "delete"}]
          /\ pnode' = IF ev.Outcome = "continue" /\ finalized
                      THEN r.node ELSE pnode
          /\ uploads' = IF ev.Outcome = "continue" /\ finalized
                        THEN [uploads EXCEPT ![ev.UploadID] = r.up]
                        ELSE uploads
  /\ UNCHANGED <<ev, ch, delivered, closed, tmtime, cache, stream, uvars,
                 svars, fvars>>

\* node.ReadNode of the upload's node, then of its parent; SetTMTime and
\* Propagate on the parent (lines 251-267)
ReadNode(w) ==
  /\ wpc[w] = "readNode"
  /\ \E ok \in BOOLEAN, parentOK \in BOOLEAN, propagateOK \in BOOLEAN :
       /\ iofault' = (iofault \/ ~ok \/ ~parentOK \/ ~propagateOK)
       /\ IF ~ok
          THEN /\ LogAndContinue(w)
               /\ UNCHANGED tmtime
          ELSE /\ wpc' = [wpc EXCEPT ![w] = "removeStat"]
               /\ wlog' = [wlog EXCEPT ![w] = @ \/ ~parentOK \/ ~propagateOK]
               /\ tmtime' = (tmtime \/ (parentOK /\ propagateOK))
  /\ UNCHANGED <<ev, ch, delivered, closed, wst, uploads, pnode, cache, stream,
                 uvars, svars, fvars>>

RemoveStatOfSpace(w) ==
  /\ wpc[w] = "removeStat"
  /\ cache' = cache \ {OtherNodeID}
  /\ wpc' = [wpc EXCEPT ![w] = "cleanup"]
  /\ UNCHANGED <<ev, ch, delivered, closed, wst, wlog, uploads, pnode, tmtime,
                 stream, iofault, uvars, svars, fvars>>

\* fs.cache.RemoveStat(ev.ExecutingUser.GetId(), id of n) (line 270)
RemoveStat(w) ==
  /\ wpc[w] = "removeStat"
  /\ cache' = cache \ {NodeID}
  /\ wpc' = [wpc EXCEPT ![w] = "cleanup"]
  /\ UNCHANGED <<ev, ch, delivered, closed, wst, wlog, uploads, pnode, tmtime,
                 stream, iofault, uvars, svars, fvars>>

\* upload.Cleanup(up, failed, keepUpload) (line 272)
CleanupUpload(w) ==
  /\ wpc[w] = "cleanup"
  /\ LET r == Cleanup(pnode, uploads[ev.UploadID], ev.UploadID,
                      wst[w].failed, wst[w].keepUpload, UnmarkPostprocessing)
     IN /\ pnode' = r.node
        /\ uploads' = [uploads EXCEPT ![ev.UploadID] = r.up]
  /\ wpc' = [wpc EXCEPT ![w] = "publish"]
  /\ UNCHANGED <<ev, ch, delivered, closed, wst, wlog, tmtime, cache, stream,
                 iofault, uvars, svars, fvars>>

\* events.Publish(fs.stream, events.UploadReady{...}) (lines 274-291)
PublishUploadReady(w) ==
  /\ wpc[w] = "publish"
  /\ \E ok \in BOOLEAN :
       /\ iofault' = (iofault \/ ~ok)
       /\ stream' = IF ok
                    THEN Append(stream, UploadReady(ev.UploadID, wst[w].failed,
                                                    ev.ExecutingUser))
                    ELSE stream
       /\ wlog' = [wlog EXCEPT ![w] = @ \/ ~ok]
  /\ wpc' = [wpc EXCEPT ![w] = "idle"]
  /\ UNCHANGED <<ev, ch, delivered, closed, wst, uploads, pnode, tmtime, cache,
                 uvars, svars, fvars>>

\* ---- case events.VirusscanFinished ------------------------------------

\* ev.ErrorMsg, then the node of the scan: NodeFromResource for an on-demand
\* scan, upload.Get and ReadNode for the scan of an upload
\* (lines 293-312, 378-393)
ResolveScanned(w) ==
  /\ wpc[w] = "scan"
  /\ IF ev.ErrorMsg # ""
     THEN /\ wpc' = [wpc EXCEPT ![w] = "idle"]
          /\ UNCHANGED <<wlog, iofault>>
     ELSE \E ok \in BOOLEAN :
            /\ iofault' = (iofault \/ ~ok)
            /\ IF ~ok \/ (ev.UploadID # "" /\ Get(ev.UploadID) # "ok")
               THEN LogAndContinue(w)
               ELSE /\ wpc' = [wpc EXCEPT ![w] =
                                IF ev.UploadID = "" /\ ev.Outcome = "delete"
                                THEN "listRevisions" ELSE "setScanData"]
                    /\ UNCHANGED wlog
  /\ UNCHANGED <<ev, ch, delivered, closed, wst, uploads, pnode, tmtime, cache,
                 stream, uvars, svars, fvars>>

\* fs.ListRevisions: the revisions of an existing node
ListRevisions(n) == IF n.exists THEN n.revs ELSE {}

\* revs, err := fs.ListRevisions(ctx, ref); without revisions fall back to
\* deleting the file, else remember all versions (lines 317-348)
ListVersions(w) ==
  /\ wpc[w] = "listRevisions"
  /\ \E ok \in BOOLEAN :
       LET revs == IF ok THEN ListRevisions(pnode) ELSE {} IN
       /\ iofault' = (iofault \/ ~ok)
       /\ wlog' = [wlog EXCEPT ![w] = @ \/ ~ok \/ ~pnode.exists]
       /\ wst' = [wst EXCEPT ![w].versions = revs]
       /\ wpc' = [wpc EXCEPT ![w] = IF revs = {} THEN "delete" ELSE "restore"]
  /\ UNCHANGED <<ev, ch, delivered, closed, uploads, pnode, tmtime, cache,
                 stream, uvars, svars, fvars>>

DeleteInfectedPurgesAnyway(w) ==
  /\ wpc[w] = "delete"
  /\ \E ok \in BOOLEAN :
       /\ iofault' = (iofault \/ ~ok)
       /\ IF ok /\ pnode.exists
          THEN /\ pnode' = [pnode EXCEPT !.exists = FALSE, !.trashed = TRUE]
               /\ wpc' = [wpc EXCEPT ![w] = "purge"]
               /\ UNCHANGED wlog
          ELSE /\ wlog' = [wlog EXCEPT ![w] = TRUE]
               /\ wpc' = [wpc EXCEPT ![w] = "purge"]
               /\ UNCHANGED pnode
  /\ UNCHANGED <<ev, ch, delivered, closed, wst, uploads, tmtime, cache, stream,
                 uvars, svars, fvars>>

\* fs.Delete(ctx, ref): NotFound for a node that does not exist, else the
\* node moves to the trash (lines 324-328)
DeleteInfected(w) ==
  /\ wpc[w] = "delete"
  /\ \E ok \in BOOLEAN :
       /\ iofault' = (iofault \/ ~ok)
       /\ IF ok /\ pnode.exists
          THEN /\ pnode' = [pnode EXCEPT !.exists = FALSE, !.trashed = TRUE]
               /\ wpc' = [wpc EXCEPT ![w] = "purge"]
               /\ UNCHANGED wlog
          ELSE /\ LogAndContinue(w)
               /\ UNCHANGED pnode
  /\ UNCHANGED <<ev, ch, delivered, closed, wst, uploads, tmtime, cache, stream,
                 uvars, svars, fvars>>

\* fs.PurgeRecycleItem(ctx, space root, n.ID, "/"), then RemoveStat
\* (lines 331-337)
PurgeInfected(w) ==
  /\ wpc[w] = "purge"
  /\ \E ok \in BOOLEAN :
       /\ iofault' = (iofault \/ ~ok)
       /\ wlog' = [wlog EXCEPT ![w] = @ \/ ~ok \/ ~pnode.trashed]
       /\ pnode' = IF ok THEN [pnode EXCEPT !.trashed = FALSE] ELSE pnode
  /\ cache' = cache \ {NodeID}
  /\ wpc' = [wpc EXCEPT ![w] = "idle"]
  /\ UNCHANGED <<ev, ch, delivered, closed, wst, uploads, tmtime, stream,
                 uvars, svars, fvars>>

\* the newest of the remembered versions
Newest(vs) == CHOOSE m \in vs : \A k \in vs : k <= m

\* fs.RestoreRevision(ctx, ref, versions[nv]): the current content becomes a
\* revision, the content of the revision becomes the node's (lines 351-354)
RestoreNewest(w) ==
  /\ wpc[w] = "restore"
  /\ \E ok \in BOOLEAN :
       /\ iofault' = (iofault \/ ~ok)
       /\ IF ok /\ pnode.exists /\ Newest(wst[w].versions) \in pnode.revs
          THEN /\ pnode' = [pnode EXCEPT !.revs = @ \cup {pnode.mtime},
                                         !.mtime = Newest(wst[w].versions)]
               /\ wpc' = [wpc EXCEPT ![w] = "deleteRevisions"]
               /\ UNCHANGED wlog
          ELSE /\ LogAndContinue(w)
               /\ UNCHANGED pnode
  /\ UNCHANGED <<ev, ch, delivered, closed, wst, uploads, tmtime, cache, stream,
                 uvars, svars, fvars>>

\* list the revisions again and delete those that were not there before the
\* restore, then RemoveStat (lines 357-375)
DeleteRevisions(w) ==
  /\ wpc[w] = "deleteRevisions"
  /\ \E listOK \in BOOLEAN, deleteOK \in BOOLEAN :
       LET revs == IF listOK THEN ListRevisions(pnode) ELSE {}
           infected == revs \ wst[w].versions
       IN /\ iofault' = (iofault \/ ~listOK \/ ~deleteOK)
          /\ wlog' = [wlog EXCEPT ![w] =
                        @ \/ ~listOK \/ (infected # {} /\ ~deleteOK)]
          /\ pnode' = IF deleteOK THEN [pnode EXCEPT !.revs = @ \ infected]
                      ELSE pnode
  /\ cache' = cache \ {NodeID}
  /\ wpc' = [wpc EXCEPT ![w] = "idle"]
  /\ UNCHANGED <<ev, ch, delivered, closed, wst, uploads, tmtime, stream,
                 uvars, svars, fvars>>

SetScanDataKeepsStat(w) ==
  /\ wpc[w] = "setScanData"
  /\ \E ok \in BOOLEAN :
       /\ iofault' = (iofault \/ ~ok)
       /\ IF ok /\ pnode.exists
          THEN /\ pnode' = [pnode EXCEPT !.scandata = TRUE]
               /\ UNCHANGED cache
               /\ UNCHANGED wlog
          ELSE /\ wlog' = [wlog EXCEPT ![w] = TRUE]
               /\ UNCHANGED <<pnode, cache>>
  /\ wpc' = [wpc EXCEPT ![w] = "idle"]
  /\ UNCHANGED <<ev, ch, delivered, closed, wst, uploads, tmtime, stream,
                 uvars, svars, fvars>>

\* n.SetScanData(ev.Description, ev.Scandate), then RemoveStat
\* (lines 395-401)
SetScanData(w) ==
  /\ wpc[w] = "setScanData"
  /\ \E ok \in BOOLEAN :
       /\ iofault' = (iofault \/ ~ok)
       /\ IF ok /\ pnode.exists
          THEN /\ pnode' = [pnode EXCEPT !.scandata = TRUE]
               /\ cache' = cache \ {NodeID}
               /\ UNCHANGED wlog
          ELSE /\ wlog' = [wlog EXCEPT ![w] = TRUE]
               /\ UNCHANGED <<pnode, cache>>
  /\ wpc' = [wpc EXCEPT ![w] = "idle"]
  /\ UNCHANGED <<ev, ch, delivered, closed, wst, uploads, tmtime, stream,
                 uvars, svars, fvars>>

\* ---- the environment of the workers -----------------------------------

\* the stream delivers ev, possibly again (at-least-once)
Deliver ==
  /\ ~closed
  /\ delivered < MaxDeliveries
  /\ delivered' = delivered + 1
  /\ ch' = ch + 1
  /\ UNCHANGED <<ev, closed, wpc, wst, wlog, uploads, pnode, tmtime, cache,
                 stream, iofault, uvars, svars, fvars>>

\* the stream closes the channel
CloseChannel ==
  /\ ~closed
  /\ closed' = TRUE
  /\ UNCHANGED <<ev, ch, delivered, wpc, wst, wlog, uploads, pnode, tmtime,
                 cache, stream, iofault, uvars, svars, fvars>>

\* the gateway serves a stat of the node and caches the result
GatewayStat ==
  /\ NodeID \notin cache
  /\ cache' = cache \cup {NodeID}
  /\ UNCHANGED <<ev, ch, delivered, closed, wpc, wst, wlog, uploads, pnode,
                 tmtime, stream, iofault, uvars, svars, fvars>>

\* the state New leaves behind when it starts the workers: an upload that
\* CreateNodeForUpload committed is waiting for post-processing, or (for an
\* on-demand scan) the node is a committed file
PInitIdle ==
  /\ ch = 0
  /\ delivered = 0
  /\ closed = FALSE
  /\ wpc = [w \in Consumers |-> "idle"]
  /\ wst = [w \in Consumers |-> NoLocals]
  /\ wlog = [w \in Consumers |-> FALSE]
  /\ tmtime = FALSE
  /\ cache = {NodeID, OtherNodeID}
  /\ stream = <<>>
  /\ iofault = FALSE
  /\ got = NoCall

PInitScenario(e, existed) ==
  /\ ev = e
  /\ uploads = [u \in {UploadID} |->
                  [info |-> e.UploadID # "", bin |-> e.UploadID # "",
                   existed |-> existed, offset |-> 0,
                   size |-> IF e.UploadID # "" THEN 1 ELSE 0]]
  /\ pnode = [exists |-> TRUE,
              status |-> IF e.UploadID # "" THEN UploadID ELSE "",
              mtime |-> UploadMTime, blob |-> (e.UploadID = ""),
              revs |-> IF existed THEN {OlderMTime, OldMTime} ELSE {},
              trashed |-> FALSE, scandata |-> FALSE]

PInit ==
  /\ PInitIdle
  /\ \E e \in Events, existed \in BOOLEAN : PInitScenario(e, existed)

PStep(w) ==
  \/ Consume(w)
  \/ LeaveLoop(w)
  \/ GetUpload(w)
  \/ SwitchOutcome(w)
  \/ ReadNode(w)
  \/ RemoveStat(w)
  \/ CleanupUpload(w)
  \/ PublishUploadReady(w)
  \/ ResolveScanned(w)
  \/ ListVersions(w)
  \/ DeleteInfected(w)
  \/ PurgeInfected(w)
  \/ RestoreNewest(w)
  \/ DeleteRevisions(w)
  \/ SetScanData(w)

PNext ==
  \/ \E w \in Consumers : PStep(w)
  \/ Deliver
  \/ CloseChannel
  \/ GatewayStat

\* =====================================================================
\* The upload store on its own: Get and List over the uploads directory
\* =====================================================================

\* ids a caller may ask for; Glob returns the paths in lexical order
StoreIDs == <<"u0", UploadID>>
Sizes == 0..2

\* the files a session can have under uploads/: a record with the offset it
\* was persisted with, a bin file with the bytes received so far
UploadFiles ==
  {[info |-> i, bin |-> b, existed |-> x, offset |-> o, size |-> z] :
     i \in BOOLEAN, b \in BOOLEAN, x \in BOOLEAN, o \in Sizes, z \in Sizes}

\* filepath.Glob(filepath.Join(store.root, "uploads", "*.info"))
HasInfo(id) == uploads[id].info
Glob == SelectSeq(StoreIDs, HasInfo)

\* OcisStore.List: Get for every .info file, a session whose Get fails is
\* logged and left out (store.go:93-111)
RECURSIVE List(_, _)
List(infoFiles, unreadable) ==
  IF infoFiles = <<>> THEN <<>>
  ELSE LET id == Head(infoFiles)
           rest == List(Tail(infoFiles), unreadable)
       IN IF id \in unreadable \/ Get(id) # "ok" THEN rest
          ELSE <<GetSession(id)>> \o rest

\* a caller gets the session of id; reading the record or the status of the
\* bin file may fail for other reasons than a missing file
StoreGet(id) ==
  /\ \E ok \in BOOLEAN :
       got' = [op |-> "Get", id |-> id,
               err |-> IF Get(id) = "NotFound" THEN "NotFound"
                       ELSE IF ok THEN "" ELSE "IOError",
               val |-> IF ok /\ Get(id) = "ok" THEN <<GetSession(id)>>
                       ELSE <<>>]
  /\ UNCHANGED <<uvars, pvars, fvars>>

\* a caller lists the sessions
StoreList ==
  /\ \E unreadable \in SUBSET {StoreIDs[i] : i \in DOMAIN StoreIDs} :
       got' = [op |-> "List", id |-> "", err |-> "",
               val |-> List(Glob, unreadable)]
  /\ UNCHANGED <<uvars, pvars, fvars>>

\* a caller cleans up the session of id with any flags
StoreCleanup(id) ==
  /\ \E revertNodeMetadata \in BOOLEAN, keepUpload \in BOOLEAN,
        unmarkPostprocessing \in BOOLEAN :
       LET r == Cleanup(pnode, uploads[id], id, revertNodeMetadata,
                        keepUpload, unmarkPostprocessing)
       IN /\ pnode' = r.node
          /\ uploads' = [uploads EXCEPT ![id] = r.up]
          /\ got' = [op |-> "Cleanup", id |-> id, err |-> "",
                     val |-> <<[revertNodeMetadata |-> revertNodeMetadata,
                                keepUpload |-> keepUpload,
                                unmarkPostprocessing |->
                                  unmarkPostprocessing]>>]
  /\ UNCHANGED <<ev, ch, delivered, closed, wpc, wst, wlog, tmtime, cache,
                 stream, iofault, uvars, fvars>>

\* the node of the sessions: a committed file, or a node an upload marked,
\* with or without versions
StoreNodes ==
  {[exists |-> TRUE, status |-> st, mtime |-> UploadMTime, blob |-> (st = ""),
    revs |-> revs, trashed |-> FALSE, scandata |-> FALSE] :
     st \in {"", UploadID}, revs \in {{}, {OlderMTime, OldMTime}}}

\* any uploads directory; a missing file has no content
SInit ==
  /\ PInitIdle
  /\ ev = CHOOSE e \in Events : TRUE
  /\ pnode \in StoreNodes
  /\ uploads \in [{StoreIDs[i] : i \in DOMAIN StoreIDs} -> UploadFiles]
  /\ \A id \in DOMAIN uploads :
       /\ ~uploads[id].info => uploads[id].offset = 0
       /\ ~uploads[id].bin => uploads[id].size = 0

SNext ==
  \/ \E i \in DOMAIN StoreIDs : StoreGet(StoreIDs[i])
  \/ StoreList
  \/ \E i \in DOMAIN StoreIDs : StoreCleanup(StoreIDs[i])

\* =====================================================================
\* Clients that stat and download the node while it is post-processed
\* =====================================================================

\* node.AsResourceInfo: the resource info tells that the node is being
\* processed
AsResourceInfo(n) == [mtime |-> n.mtime, processing |-> n.status # ""]

\* fs.tp.ReadBlob(node): the bytes the blob store has under the blob id of
\* the node, an error without them
ReadBlob(n) == IF n.blob THEN "" ELSE "Error"

\* Decomposedfs.GetMD (part_002:794-832)
GetMD(n, resolved, stat) ==
  IF ~resolved THEN [err |-> "Error", val |-> <<>>]
  ELSE IF ~n.exists THEN [err |-> "NotFound", val |-> <<>>]
  ELSE IF ~stat THEN [err |-> "PermissionDenied", val |-> <<>>]
  ELSE [err |-> "", val |-> <<AsResourceInfo(n)>>]

DownloadNoBlobRead(n, resolved, initiateFileDownload) ==
  IF ~resolved THEN [err |-> "Error", val |-> <<>>]
  ELSE IF ~n.exists THEN [err |-> "NotFound", val |-> <<>>]
  ELSE IF ~initiateFileDownload THEN [err |-> "PermissionDenied", val |-> <<>>]
  ELSE [err |-> "", val |-> <<[mtime |-> n.mtime]>>]

\* Decomposedfs.Download: a reader of the node's blob, the content named by
\* its mtime (part_002:910-936)
Download(n, resolved, initiateFileDownload) ==
  IF ~resolved THEN [err |-> "Error", val |-> <<>>]
  ELSE IF ~n.exists THEN [err |-> "NotFound", val |-> <<>>]
  ELSE IF ~initiateFileDownload THEN [err |-> "PermissionDenied", val |-> <<>>]
  ELSE IF ReadBlob(n) # "" THEN [err |-> ReadBlob(n), val |-> <<>>]
  ELSE [err |-> "", val |-> <<[mtime |-> n.mtime]>>]

\* a client stats the node
ClientGetMD ==
  /\ \E resolved \in BOOLEAN, stat \in BOOLEAN :
       LET r == GetMD(pnode, resolved, stat)
       IN got' = [op |-> "GetMD", id |-> NodeID, err |-> r.err, val |-> r.val]
  /\ UNCHANGED <<uvars, pvars, fvars>>

\* a client downloads the node
ClientDownload ==
  /\ \E resolved \in BOOLEAN, initiateFileDownload \in BOOLEAN :
       LET r == Download(pnode, resolved, initiateFileDownload)
       IN got' = [op |-> "Download", id |-> NodeID, err |-> r.err,
                  val |-> r.val]
  /\ UNCHANGED <<uvars, pvars, fvars>>

\* the workers and the clients side by side
VNext ==
  \/ PNext
  \/ ClientGetMD
  \/ ClientDownload

\* =====================================================================
\* The storage driver's operations on the tree (decomposedfs.go)
\* =====================================================================

\* the share folder and the two names a caller uses beneath it
ShareFolder == "/Shares"
ChildPaths == {"/Shares/a", "/Shares/b"}
Paths == {ShareFolder} \cup ChildPaths

\* a path without a node; a node has a kind and the id of its lock, if any
NoFile == [exists |-> FALSE, dir |-> FALSE, lock |-> ""]

\* the context and environment of one call: the lock id of the context, the
\* lookups succeed, the answers of the first and the second permission check,
\* and the step that fails; at most one of them goes wrong in a call
Ctxs ==
  {c \in [lockID : {"", "L1", "L2"}, resolved : BOOLEAN,
          perm : {"ok", "denied", "error"},
          perm2 : {"ok", "denied", "error"},
          io : {"ok", "tree", "meta"}] :
     (IF c.resolved THEN 0 ELSE 1) + (IF c.perm = "ok" THEN 0 ELSE 1)
       + (IF c.perm2 = "ok" THEN 0 ELSE 1) + (IF c.io = "ok" THEN 0 ELSE 1)
       <= 1}

\* n.CheckLock(ctx): Locked unless the node has no lock or the context
\* carries its lock id
NodeCheckLock(n, c) ==
  IF n.lock # "" /\ n.lock # c.lockID THEN "Locked" ELSE ""

\* fs.tp.CreateDir and fs.tp.Delete; a directory goes with what is in it
TreeCreateDir(t, p) ==
  [t EXCEPT ![p] = [exists |-> TRUE, dir |-> TRUE, lock |-> ""]]

TreeDelete(t, p) ==
  IF p = ShareFolder THEN [q \in Paths |-> NoFile]
  ELSE [t EXCEPT ![p] = NoFile]

\* what an operation returns and the tree it leaves
Ret(e, t) == [err |-> e, tree |-> t]

\* CreateDir that creates the directory over a node of that name
CreateDirOverwrites(t, p, c) ==
  IF p = "/" THEN Ret("BadRequest", t)
  ELSE IF ~c.resolved THEN Ret("Error", t)
  ELSE IF ~t[ShareFolder].exists THEN Ret("PreconditionFailed", t)
  ELSE IF c.perm = "error" THEN Ret("InternalError", t)
  ELSE IF c.perm = "denied" THEN Ret("PermissionDenied", t)
  ELSE IF NodeCheckLock(t[ShareFolder], c) # "" THEN Ret("Locked", t)
  ELSE IF c.io = "tree" THEN Ret("IOError", t)
  ELSE IF c.io = "meta" THEN Ret("IOError", TreeCreateDir(t, p))
  ELSE Ret("", TreeCreateDir(t, p))

\* CreateDir(ctx, ref) for the path p: a name in the share folder, or "/",
\* which has no base name
CreateDir(t, p, c) ==
  IF p = "/" THEN Ret("BadRequest", t)
  ELSE IF ~c.resolved THEN Ret("Error", t)
  ELSE IF ~t[ShareFolder].exists THEN Ret("PreconditionFailed", t)
  ELSE IF c.perm = "error" THEN Ret("InternalError", t)
  ELSE IF c.perm = "denied" THEN Ret("PermissionDenied", t)
  ELSE IF NodeCheckLock(t[ShareFolder], c) # "" THEN Ret("Locked", t)
  ELSE IF t[p].exists THEN Ret("AlreadyExists", t)
  ELSE IF c.io = "tree" THEN Ret("IOError", t)
  ELSE IF c.io = "meta" THEN Ret("IOError", TreeCreateDir(t, p))
  ELSE Ret("", TreeCreateDir(t, p))

\* TouchFile that does not look at the parent
TouchFileAnyParent(t, p, c) ==
  IF ~c.resolved THEN Ret("InternalError", t)
  ELSE IF c.perm = "error" THEN Ret("InternalError", t)
  ELSE IF c.perm = "denied" THEN Ret("PermissionDenied", t)
  ELSE IF NodeCheckLock(t[p], c) # "" THEN Ret("Locked", t)
  ELSE IF t[p].exists THEN Ret("AlreadyExists", t)
  ELSE IF c.io = "tree" THEN Ret("IOError", t)
  ELSE Ret("", [t EXCEPT ![p] = [exists |-> TRUE, dir |-> FALSE,
                                 lock |-> ""]])

\* TouchFile(ctx, ref) for the path p; fs.tp.TouchFile creates the file
TouchFile(t, p, c) ==
  IF ~c.resolved THEN Ret("InternalError", t)
  ELSE IF ~t[ShareFolder].exists THEN Ret("NotFound", t)
  ELSE IF c.perm = "error" THEN Ret("InternalError", t)
  ELSE IF c.perm = "denied" THEN Ret("PermissionDenied", t)
  ELSE IF NodeCheckLock(t[p], c) # "" THEN Ret("Locked", t)
  ELSE IF t[p].exists THEN Ret("AlreadyExists", t)
  ELSE IF c.io = "tree" THEN Ret("IOError", t)
  ELSE Ret("", [t EXCEPT ![p] = [exists |-> TRUE, dir |-> FALSE,
                                 lock |-> ""]])

\* CreateReference(ctx, p, targetURI): p must have two parts, the first one
\* the share folder
CreateReference(t, p, c) ==
  IF p \notin ChildPaths THEN Ret("PermissionDenied", t)
  ELSE IF ~c.resolved THEN Ret("InternalError", t)
  ELSE IF ~t[ShareFolder].exists /\ c.io = "tree" THEN Ret("IOError", t)
  ELSE LET parentCreated == ~t[ShareFolder].exists
           t1 == IF parentCreated THEN TreeCreateDir(t, ShareFolder) ELSE t
           undo == IF parentCreated THEN TreeDelete(t1, ShareFolder) ELSE t1
       IN IF t1[p].exists THEN Ret("AlreadyExists", undo)
          ELSE IF c.io = "tree" THEN Ret("IOError", undo)
          ELSE IF c.io = "meta" THEN Ret("IOError", undo)
          ELSE Ret("", TreeCreateDir(t1, p))

\* Move that never asks for the lock of the node it moves
MoveIgnoresLock(t, oldRef, newRef, c) ==
  IF ~c.resolved THEN Ret("Error", t)
  ELSE IF ~t[oldRef].exists THEN Ret("NotFound", t)
  ELSE IF c.perm = "error" THEN Ret("InternalError", t)
  ELSE IF c.perm = "denied" THEN Ret("PermissionDenied", t)
  ELSE IF t[newRef].exists THEN Ret("AlreadyExists", t)
  ELSE IF c.perm2 = "error" THEN Ret("InternalError", t)
  ELSE IF c.perm2 = "denied" THEN Ret("PermissionDenied", t)
  ELSE IF NodeCheckLock(t[newRef], c) # "" THEN Ret("Locked", t)
  ELSE IF c.io = "tree" THEN Ret("IOError", t)
  ELSE Ret("", [t EXCEPT ![newRef] = t[oldRef], ![oldRef] = NoFile])

\* Move(ctx, oldRef, newRef); fs.tp.Move puts the node at its new path
Move(t, oldRef, newRef, c) ==
  IF ~c.resolved THEN Ret("Error", t)
  ELSE IF ~t[oldRef].exists THEN Ret("NotFound", t)
  ELSE IF c.perm = "error" THEN Ret("InternalError", t)
  ELSE IF c.perm = "denied" THEN Ret("PermissionDenied", t)
  ELSE IF t[newRef].exists THEN Ret("AlreadyExists", t)
  ELSE IF c.perm2 = "error" THEN Ret("InternalError", t)
  ELSE IF c.perm2 = "denied" THEN Ret("PermissionDenied", t)
  ELSE IF NodeCheckLock(t[oldRef], c) # "" THEN Ret("Locked", t)
  ELSE IF NodeCheckLock(t[newRef], c) # "" THEN Ret("Locked", t)
  ELSE IF c.io = "tree" THEN Ret("IOError", t)
  ELSE Ret("", [t EXCEPT ![newRef] = t[oldRef], ![oldRef] = NoFile])

\* Delete that asks for the lock only
DeleteNoPermission(t, p, c) ==
  IF ~c.resolved THEN Ret("Error", t)
  ELSE IF ~t[p].exists THEN Ret("NotFound", t)
  ELSE IF NodeCheckLock(t[p], c) # "" THEN Ret("Locked", t)
  ELSE IF c.io = "tree" THEN Ret("IOError", t)
  ELSE Ret("", TreeDelete(t, p))

\* Delete(ctx, ref)
Delete(t, p, c) ==
  IF ~c.resolved THEN Ret("Error", t)
  ELSE IF ~t[p].exists THEN Ret("NotFound", t)
  ELSE IF c.perm = "error" THEN Ret("InternalError", t)
  ELSE IF c.perm = "denied" THEN Ret("PermissionDenied", t)
  ELSE IF NodeCheckLock(t[p], c) # "" THEN Ret("Locked", t)
  ELSE IF c.io = "tree" THEN Ret("IOError", t)
  ELSE Ret("", TreeDelete(t, p))

\* SetLock(ctx, ref, lock); n.SetLock refuses a node that has a lock
SetLock(t, p, id, c) ==
  IF ~c.resolved THEN Ret("Error", t)
  ELSE IF ~t[p].exists THEN Ret("NotFound", t)
  ELSE IF c.perm = "error" THEN Ret("InternalError", t)
  ELSE IF c.perm = "denied" THEN Ret("PermissionDenied", t)
  ELSE IF c.io # "ok" THEN Ret("IOError", t)
  ELSE IF t[p].lock # "" THEN Ret("PreconditionFailed", t)
  ELSE Ret("", [t EXCEPT ![p].lock = id])

\* RefreshLock(ctx, ref, lock, existingLockID); id = "" is a missing lock
\* id, and n.RefreshLock wants the lock the node has
RefreshLock(t, p, id, c) ==
  IF id = "" THEN Ret("BadRequest", t)
  ELSE IF ~c.resolved THEN Ret("Error", t)
  ELSE IF ~t[p].exists THEN Ret("NotFound", t)
  ELSE IF c.perm = "error" THEN Ret("InternalError", t)
  ELSE IF c.perm = "denied" THEN Ret("PermissionDenied", t)
  ELSE IF c.io # "ok" THEN Ret("IOError", t)
  ELSE IF t[p].lock # id THEN Ret("PreconditionFailed", t)
  ELSE Ret("", t)

\* Unlock(ctx, ref, lock); id = "" is a missing lock id, and n.Unlock wants
\* the lock the node has
Unlock(t, p, id, c) ==
  IF id = "" THEN Ret("BadRequest", t)
  ELSE IF ~c.resolved THEN Ret("Error", t)
  ELSE IF ~t[p].exists THEN Ret("NotFound", t)
  ELSE IF c.perm = "error" THEN Ret("InternalError", t)
  ELSE IF c.perm = "denied" THEN Ret("PermissionDenied", t)
  ELSE IF c.io # "ok" THEN Ret("IOError", t)
  ELSE IF t[p].lock = "" THEN Ret("Aborted", t)
  ELSE IF t[p].lock # id THEN Ret("Locked", t)
  ELSE Ret("", [t EXCEPT ![p].lock = ""])

\* a caller's request ends: the tree it leaves and what it was told
Answer(op, p, a, c, r) ==
  /\ tree' = r.tree
  /\ got' = [op |-> op, id |-> p, err |-> r.err,
             val |-> <<[ctx |-> c, arg |-> a]>>]
  /\ UNCHANGED <<uvars, pvars, shares, callers>>

\* one call of an operation; a field of the context that the operation
\* never reads is fixed
FNext ==
  \/ \E p \in ChildPaths \cup {"/"}, c \in Ctxs :
       /\ c.perm2 = "ok"
       /\ Answer("CreateDir", p, "", c, CreateDir(tree, p, c))
  \/ \E p \in ChildPaths, c \in Ctxs :
       /\ c.perm2 = "ok" /\ c.io # "meta"
       /\ Answer("TouchFile", p, "", c, TouchFile(tree, p, c))
  \/ \E p \in ChildPaths \cup {"/a/b", ShareFolder}, c \in Ctxs :
       /\ c.perm2 = "ok" /\ c.perm = "ok"
       /\ Answer("CreateReference", p, "", c, CreateReference(tree, p, c))
  \/ \E oldRef \in ChildPaths, newRef \in ChildPaths, c \in Ctxs :
       /\ oldRef # newRef
       /\ c.io # "meta"
       /\ Answer("Move", oldRef, newRef, c, Move(tree, oldRef, newRef, c))
  \/ \E p \in Paths, c \in Ctxs :
       /\ c.perm2 = "ok" /\ c.io # "meta"
       /\ Answer("Delete", p, "", c, Delete(tree, p, c))
  \/ \E p \in Paths, id \in {"L1"}, c \in Ctxs :
       /\ c.perm2 = "ok" /\ c.io # "meta" /\ c.lockID = ""
       /\ Answer("SetLock", p, id, c, SetLock(tree, p, id, c))
  \/ \E p \in Paths, id \in {"", "L1"}, c \in Ctxs :
       /\ c.perm2 = "ok" /\ c.io # "meta" /\ c.lockID = ""
       /\ Answer("RefreshLock", p, id, c, RefreshLock(tree, p, id, c))
  \/ \E p \in Paths, id \in {"", "L1"}, c \in Ctxs :
       /\ c.perm2 = "ok" /\ c.io # "meta" /\ c.lockID = ""
       /\ Answer("Unlock", p, id, c, Unlock(tree, p, id, c))

\* =====================================================================
\* The JSON share manager (pkg/share/manager/json)
\* =====================================================================

\* the owner of the shared resources, and the user who lists what they
\* received; the user is a member of both groups
Owner == "o1"
User == "u1"
Groups == {"g1", "g2"}
Grantees ==
  {[type |-> "user", id |-> User]}
    \cup {[type |-> "group", id |-> g] : g \in Groups}

\* a caller outside of Share
Idle ==
  [pc |-> "idle", creator |-> "", resource |-> "",
   grantee |-> [type |-> "", id |-> ""]]

\* getByKey(ctx, key): the first share of the key, under the mutex
getByKey(owner, resource, grantee) ==
  IF \E i \in DOMAIN shares :
       /\ (owner = shares[i].owner \/ owner = shares[i].creator)
       /\ resource = shares[i].resource
       /\ grantee = shares[i].grantee
  THEN "" ELSE "NotFound"

\* Share(ctx, md, g) up to the answer of getByKey: the caller leaves with an
\* error, or goes on to take the mutex
ShareCheck(c) ==
  /\ callers[c].pc = "idle"
  /\ Len(shares) + Cardinality({d \in Callers : callers[d].pc = "append"})
       < MaxShares
  /\ \E creator \in {Owner, User}, resource \in {"r1", "r2"},
        grantee \in Grantees :
       IF grantee.type = "user" /\ grantee.id \in {creator, Owner}
       THEN /\ got' = [op |-> "Share", id |-> resource, err |-> "Error",
                       val |-> <<[grantee |-> grantee]>>]
            /\ UNCHANGED callers
       ELSE IF getByKey(Owner, resource, grantee) = ""
       THEN /\ got' = [op |-> "Share", id |-> resource,
                       err |-> "AlreadyExists",
                       val |-> <<[grantee |-> grantee]>>]
            /\ UNCHANGED callers
       ELSE /\ callers' = [callers EXCEPT ![c] =
                             [pc |-> "append", creator |-> creator,
                              resource |-> resource, grantee |-> grantee]]
            /\ UNCHANGED got
  /\ UNCHANGED <<uvars, pvars, tree, shares>>

\* the rest of Share: under the mutex the share is appended and the model
\* saved; the share stays in the model when saving fails
ShareAppend(c) ==
  /\ callers[c].pc = "append"
  /\ \E saved \in BOOLEAN :
       /\ shares' = Append(shares,
                      [id |-> Len(shares) + 1, owner |-> Owner,
                       creator |-> callers[c].creator,
                       resource |-> callers[c].resource,
                       grantee |-> callers[c].grantee,
                       state |-> "pending"])
       /\ got' = [op |-> "Share", id |-> callers[c].resource,
                  err |-> IF saved THEN "" ELSE "IOError",
                  val |-> <<[grantee |-> callers[c].grantee]>>]
  /\ callers' = [callers EXCEPT ![c] = Idle]
  /\ UNCHANGED <<uvars, pvars, tree>>

\* share.IsCreatedByUser, share.IsGrantedToUser and share.MatchesFilters for
\* a filter on the resource id; filter = "" is no filter
IsCreatedByUser(s, user) == s.creator = user

IsGrantedToUser(s, user) ==
  IF s.grantee.type = "user" THEN s.grantee.id = user
  ELSE s.grantee.id \in Groups

MatchesFilters(s, filter) == s.resource = filter

\* the deduplication loop of ListReceivedShares: step k visits the pair
\* (i, j) of positions of rss, and a group share at i is dropped from
\* filtered by moving the last element to position i; the positions of
\* filtered are no longer those of rss once an element is gone
RECURSIVE Dedupe(_, _, _)
Dedupe(rss, filtered, k) ==
  LET n == Len(rss)
      i == (k \div n) + 1
      j == (k % n) + 1
  IN IF n = 0 \/ k >= n * n THEN [err |-> "", val |-> filtered]
     ELSE IF /\ rss[i].resource = rss[j].resource
             /\ rss[i].grantee.type = "group"
             /\ rss[j].grantee.type = "user"
             /\ rss[i].state = rss[j].state
     THEN IF i > Len(filtered) THEN [err |-> "panic", val |-> <<>>]
          ELSE Dedupe(rss,
                      SubSeq([filtered EXCEPT ![i] = filtered[Len(filtered)]],
                             1, Len(filtered) - 1),
                      k + 1)
     ELSE Dedupe(rss, filtered, k + 1)

\* ListReceivedShares(ctx, filters) for the shares ss of the model
ListReceivedShares(ss, user, filter) ==
  LET Received(s) ==
        /\ ~(IsCreatedByUser(s, user) \/ ~IsGrantedToUser(s, user))
        /\ (filter = "" \/ MatchesFilters(s, filter))
      rss == SelectSeq(ss, Received)
  IN Dedupe(rss, rss, 0)

\* UpdateReceivedShare(ctx, receivedShare, fieldMask) for the field state:
\* the user accepts or declines a share they received
UpdateReceivedShare ==
  /\ \E i \in DOMAIN shares, state \in {"pending", "accepted"} :
       /\ IsGrantedToUser(shares[i], User)
       /\ shares' = [shares EXCEPT ![i].state = state]
  /\ got' = [op |-> "UpdateReceivedShare", id |-> "", err |-> "",
             val |-> <<>>]
  /\ UNCHANGED <<uvars, pvars, tree, callers>>

\* no call of the tree operations or of the share manager is running
FIdle ==
  /\ tree = [p \in Paths |-> NoFile]
  /\ shares = <<>>
  /\ callers = [c \in Callers |-> Idle]

\* the calls of the share manager; the user lists the shares they received
MNext ==
  \/ \E c \in Callers : ShareCheck(c)
  \/ \E c \in Callers : ShareAppend(c)
  \/ \E filter \in {"", "r1", "r2"} :
       /\ got' = [op |-> "ListReceivedShares", id |-> filter,
                  err |-> ListReceivedShares(shares, User, filter).err,
                  val |-> ListReceivedShares(shares, User, filter).val]
       /\ UNCHANGED <<uvars, pvars, fvars>>
  \/ UpdateReceivedShare

\* =====================================================================
\* GetQuota (decomposedfs.go)
\* =====================================================================

\* GetQuota(ctx, ref) for a space root with the quota attribute quota (one
\* of the three words of the node package, a decimal number, or something
\* ParseUint rejects), the tree size size and available bytes left on the
\* disk; early is the error of a step before the quota is read
GetQuota(quota, size, available, early) ==
  IF early # ""
  THEN [err |-> early, total |-> 0, inUse |-> 0, remaining |-> 0]
  ELSE IF quota.kind \in {"uncalculated", "unknown", "unlimited"}
  THEN [err |-> "", total |-> 0, inUse |-> size, remaining |-> available]
  ELSE IF quota.kind = "invalid"
  THEN [err |-> "SyntaxError", total |-> 0, inUse |-> 0, remaining |-> 0]
  ELSE LET total == quota.value
       IN [err |-> "", total |-> total, inUse |-> size,
           remaining |-> IF total <= available
                         THEN IF size >= total THEN 0 ELSE total - size
                         ELSE available]

\* a caller asks for the quota of a space
QNext ==
  /\ \E quota \in
          {[kind |-> k, value |-> 0] :
             k \in {"uncalculated", "unknown", "unlimited", "invalid"}}
            \cup {[kind |-> "number", value |-> v] : v \in 0..MaxBytes},
        size \in 0..MaxBytes, available \in 0..MaxBytes,
        early \in {"", "BadRequest", "Error", "NotFound", "InternalError",
                   "PermissionDenied", "IOError"} :
       LET r == GetQuota(quota, size, available, early)
       IN got' = [op |-> "GetQuota", id |-> quota.kind, err |-> r.err,
                  val |-> <<[quota |-> quota.value, size |-> size,
                             available |-> available, total |-> r.total,
                             inUse |-> r.inUse, remaining |-> r.remaining]>>]
  /\ UNCHANGED <<uvars, pvars, fvars>>

\* =====================================================================
\* The events interceptor (eventsmiddleware/events.go)
\* =====================================================================

\* the event of each response type of the switch
EventOf(res) ==
  IF res = "CreateShareResponse" THEN "ShareCreated"
  ELSE IF res = "RemoveShareResponse" THEN "ShareRemoved"
  ELSE IF res = "UpdateShareResponse" THEN "ShareUpdated"
  ELSE IF res = "CreatePublicShareResponse" THEN "LinkCreated"
  ELSE ""

\* isSuccess(res)
isSuccess(h) == h.code = "OK"

\* the interceptor that returns the error of events.Publish to the caller
NewUnaryReturnsPublishError(h, published) ==
  IF h.err # ""
  THEN [res |-> h.res, code |-> h.code, err |-> h.err, ev |-> "",
        logged |-> FALSE]
  ELSE LET emitted == IF isSuccess(h) THEN EventOf(h.res) ELSE ""
       IN [res |-> IF emitted # "" /\ ~published THEN "nil" ELSE h.res,
           code |-> h.code,
           err |-> IF emitted # "" /\ ~published THEN "Error" ELSE "",
           ev |-> emitted, logged |-> emitted # "" /\ ~published]

\* the interceptor of NewUnary around a handler that returned h; published
\* says whether events.Publish succeeds
NewUnary(h, published) ==
  IF h.err # ""
  THEN [res |-> h.res, code |-> h.code, err |-> h.err, ev |-> "",
        logged |-> FALSE]
  ELSE LET emitted == IF isSuccess(h) THEN EventOf(h.res) ELSE ""
       IN [res |-> h.res, code |-> h.code, err |-> "", ev |-> emitted,
           logged |-> emitted # "" /\ ~published]

\* a request passes the interceptor: the handler returns one of the four
\* responses the interceptor knows, one of another type or none, with a
\* status code, or an error
ENext ==
  /\ \E h \in [res : {"CreateShareResponse", "RemoveShareResponse",
                      "UpdateShareResponse", "CreatePublicShareResponse",
                      "GetShareResponse", "nil"},
               code : {"OK", "NOT_FOUND", "PERMISSION_DENIED",
                       "ALREADY_EXISTS", "INTERNAL"},
               err : {"", "Error"}],
        published \in BOOLEAN :
       LET r == NewUnary(h, published)
       IN got' = [op |-> "Intercept", id |-> h.res, err |-> r.err,
                  val |-> <<[handler |-> h, published |-> published,
                             res |-> r.res, code |-> r.code, ev |-> r.ev,
                             logged |-> r.logged]>>]
  /\ UNCHANGED <<uvars, pvars, fvars>>

\* =====================================================================
\* Specifications
\* =====================================================================

\* the workers are not running
UIdle ==
  /\ PInitIdle
  /\ PInitScenario(CHOOSE e \in Events : TRUE, FALSE)
  /\ FIdle

InitUpload == UInit /\ UIdle

SpecUpload == InitUpload /\ [][UNext]_vars

\* no upload is in flight
InitPP ==
  /\ UInitIdle
  /\ req = [s \in Sessions |-> <<>>]
  /\ node = NoNode
  /\ PInit
  /\ FIdle

\* the metadata copy to a version node, for any attributes of the live node
InitCopy == CInit /\ UIdle

SpecCopy == InitCopy /\ [][CNext]_vars

\* a single handler serving one fully determined request
InitRequest == RInit /\ UIdle

SpecRequest == InitRequest /\ [][RNext]_vars

SpecPP == InitPP /\ [][PNext]_vars

\* the uploads directory with any files, callers of Get and List
InitStore ==
  /\ UInitIdle
  /\ req = [s \in Sessions |-> <<>>]
  /\ node = NoNode
  /\ SInit
  /\ FIdle

SpecStore == InitStore /\ [][SNext]_vars

\* post-processing with clients reading the node
InitServe ==
  /\ UInitIdle
  /\ req = [s \in Sessions |-> <<>>]
  /\ node = NoNode
  /\ PInit
  /\ FIdle

SpecServe == InitServe /\ [][VNext]_vars

\* no upload, no worker and no call is running
InitCalls ==
  /\ UInitIdle
  /\ req = [s \in Sessions |-> <<>>]
  /\ node = NoNode
  /\ UIdle

\* callers of the tree operations, one request at a time
SpecFS == InitCalls /\ [][FNext]_vars

\* callers of the share manager, NumCallers of them inside Share at a time
SpecShare == InitCalls /\ [][MNext]_vars

\* callers of GetQuota, for any quota, tree size and disk
SpecQuota == InitCalls /\ [][QNext]_vars

\* requests passing the events interceptor
SpecEvents == InitCalls /\ [][ENext]_vars

\* =====================================================================
\* Properties
\* =====================================================================

\* C1: at any time at most one session holds the metadata write lock of the
\* target node
C1_MutualExclusion ==
  \A s, t \in Sessions : Holds(s) /\ Holds(t) => s = t

\* positions of CreateNodeForUpload after the lock was acquired, up to and
\* including the attribute write
LockedSteps == {"uRead", "uVersion", "iCreate", "iQuota", "setAttrs"}

\* C10 as stated: steps 2 to 7 of CreateNodeForUpload, the check of the
\* advisory lock included, run while the session holds the metadata lock
C10_StepsTwoToSevenLocked ==
  \A s \in Sessions : spc[s] \in LockedSteps \cup {"checkLock"} => Holds(s)

\* C10 amended: the advisory lock check of step 2 runs before the session
\* has the metadata lock; from the acquisition of the lock up to the
\* attribute write the session holds the flock of the lock file it opened,
\* and a call that fails nowhere gives it up only after the attribute write
C10_LockedFromAcquisition ==
  /\ [](\A s \in Sessions :
          /\ spc[s] \in LockedSteps => Holds(s)
          /\ spc[s] = "checkLock" => ~Holds(s))
  /\ [][\A s \in Sessions :
          Holds(s) /\ ~Holds(s)' => wrote[s] \/ err[s] # ""]_vars

C10_Witness ==
  \E s \in Sessions :
    spc[s] = "defer" /\ wrote[s] /\ err[s] = "" /\ Holds(s)

\* ---- one request with its inputs fixed --------------------------------

\* the inputs of the request the handler serves
IfMatchOf == CHOOSE h \in In(Handler).ifMatch : TRUE
IfNoneMatchOf == CHOOSE h \in In(Handler).ifNoneMatch : TRUE
IfUnmodifiedSinceOf == CHOOSE h \in In(Handler).ifUnmodifiedSince : TRUE
MTimeOf == CHOOSE m \in In(Handler).mtime : TRUE
\* the etag of the live node as it is now, as a header would carry it
CurrentEtag == <<CalculateEtag(GetMTime(node))>>
\* the handler runs the checks of updateExistingNode on an existing node in
\* this step
ChecksOld ==
  spc[Handler] = "uRead" /\ spc'[Handler] # "uRead" /\ node.exists
\* the errors the steps before the precondition checks return
Earlier == {"InsufficientStorage"}
\* the etags an if-none-match header lists
Listed(h) == {h[i] : i \in 1..Len(h)} \ {Comma, Space, Star[1]}
\* the attribute k of node n has value v
Has(n, k, v) == k \in DOMAIN n.attrs /\ n.attrs[k] = v

\* C11: when CreateNodeForUpload has returned, with success or with any
\* error raised after the metadata lock was acquired, the session holds no
\* lock: the lock the call acquired has been released
C11_LockReleasedOnReturn ==
  \A s \in Sessions :
    spc[s] = "done" => fd[s] = 0 /\ \A i \in Inodes : flock[i] # s

C11_Witness ==
  \E s \in Sessions :
    /\ spc[s] = "uRemove" /\ err[s] \in {"Aborted", "IOError"}
    /\ \A i \in Inodes : flock[i] # s
    /\ \E t \in Sessions : t # s /\ spc[t] = "done" /\ sinfo[t].cleanup

\* C12: an overwrite of an existing node whose if-match header differs from
\* the node's current etag returns Aborted (unless the quota check before
\* it has failed); while a call returns with Aborted the live node and the
\* version nodes stay as they are, and when it has returned the caller has
\* cleaned the session up and the lock is free
C12_AbortedOverwrite ==
  [][/\ ChecksOld /\ IfMatchOf # NoHeader /\ IfMatchOf # CurrentEtag
          => err'[Handler] \in {"Aborted"} \cup Earlier
     /\ spc[Handler] # "done"
        /\ (err[Handler] = "Aborted" \/ err'[Handler] = "Aborted")
          => /\ node' = node
             /\ versions' = versions
             /\ spc'[Handler] \in {"defer", "uRemove", "done"}
             /\ spc'[Handler] = "done"
                  => sinfo'[Handler].cleanup /\ ~Holds(Handler)']_vars

C12_Witness ==
  /\ spc[Handler] = "uRemove" /\ err[Handler] = "Aborted"
  /\ IfMatchOf \notin {NoHeader, CurrentEtag}
  /\ node.exists /\ versions = {}

\* C13: on an existing target a non-empty if-match header that differs from
\* the etag of the node's current mtime, read under the metadata lock,
\* makes the call fail with Aborted (unless the quota check before it has
\* failed); an equal header and an empty header do not abort
C13_IfMatch ==
  [][ChecksOld =>
       /\ Holds(Handler)
       /\ IfMatchOf # NoHeader /\ IfMatchOf # CurrentEtag
            => err'[Handler] \in {"Aborted"} \cup Earlier
       /\ IfMatchOf \in {NoHeader, CurrentEtag}
          /\ IfNoneMatchOf = NoHeader /\ IfUnmodifiedSinceOf = NoHeader
            => err'[Handler] # "Aborted"]_vars

C13_Witness ==
  /\ spc[Handler] = "uVersion"
  /\ IfMatchOf = CurrentEtag
  /\ IfNoneMatchOf = NoHeader /\ IfUnmodifiedSinceOf = NoHeader

\* C14: on an existing target an if-none-match header of "*" and a header
\* that lists the node's current etag make the call fail with Aborted; an
\* empty header and a header listing only other etags do not abort
C14_IfNoneMatch ==
  [][ChecksOld /\ IfMatchOf = NoHeader =>
       /\ IfNoneMatchOf = Star \/ CurrentEtag[1] \in Listed(IfNoneMatchOf)
            => err'[Handler] \in {"Aborted"} \cup Earlier
       /\ IfNoneMatchOf # Star /\ CurrentEtag[1] \notin Listed(IfNoneMatchOf)
          /\ IfUnmodifiedSinceOf = NoHeader
            => err'[Handler] # "Aborted"]_vars

\* C15: on an existing target an if-unmodified-since header with a time
\* makes the call fail with Aborted exactly when the node's current mtime is
\* later than that time (the quota check before it may fail first); a header
\* that does not parse gives InternalError, not Aborted
C15_IfUnmodifiedSince ==
  [][ChecksOld /\ IfMatchOf = NoHeader /\ IfNoneMatchOf = NoHeader
     /\ IfUnmodifiedSinceOf # NoHeader =>
       IF IfUnmodifiedSinceOf = Unparsable
       THEN err'[Handler] \in {"InternalError"} \cup Earlier
       ELSE /\ GetMTime(node) > IfUnmodifiedSinceOf[2]
                 => err'[Handler] \in {"Aborted"} \cup Earlier
            /\ GetMTime(node) <= IfUnmodifiedSinceOf[2]
                 => err'[Handler] \in {""} \cup Earlier]_vars

C15_Witness ==
  /\ spc[Handler] = "uVersion"
  /\ IfMatchOf = NoHeader /\ IfNoneMatchOf = NoHeader
  /\ IfUnmodifiedSinceOf = <<"t", GetMTime(node)>>

\* C16: with versioning enabled and no failing file system call, the step
\* that follows the checks on an existing target creates the version node
\* at the version path derived from the node id and the old mtime, and a
\* call that succeeds has recorded that path as versionsPath
C16_VersionAtVersionPath ==
  [][spc[Handler] = "uVersion" /\ spc'[Handler] # "uVersion"
     /\ In(Handler).disableVersioning = {FALSE} /\ In(Handler).io = {TRUE}
       => /\ \E v \in versions' : v.path = VersionPath(old[Handler].mtime)
          /\ err'[Handler] = ""
               => sinfo'[Handler].versionsPath
                    = VersionPath(old[Handler].mtime)]_vars

\* C18: a version node has exactly the checksum, type, blob id, blob size
\* and mtime attributes of the live node, with the live node's values; the
\* id, parent id, name, status, grants and user metadata are not copied
C18_VersionAttributes ==
  \A v \in versions :
    /\ DOMAIN v.attrs =
         {k \in DOMAIN node.attrs :
            \/ k \in {<<"user", "ocis", "type">>, <<"user", "ocis", "blobid">>,
                      <<"user", "ocis", "blobsize">>,
                      <<"user", "ocis", "mtime">>}
            \/ Len(k) = 4 /\ SubSeq(k, 1, 3) = <<"user", "ocis", "cs">>}
    /\ \A k \in DOMAIN v.attrs : v.attrs[k] = node.attrs[k]

C18_Witness ==
  /\ DOMAIN node.attrs = DOMAIN AllAttrs
  /\ \E v \in versions :
       /\ ChecksumPrefix \o <<"sha1">> \in DOMAIN v.attrs
       /\ BlobIDAttr \in DOMAIN v.attrs
       /\ NameAttr \notin DOMAIN v.attrs

\* C19: when CreateNodeForUpload has written the attributes, the live node
\* has the session's id, parent id, name, blob id and blob size, type file,
\* status processing:<session id>, and as mtime the client's when the
\* session has one and the current time otherwise, whatever the caller's
\* initial attributes say
C19_TechnicalAttributes ==
  [][spc[Handler] = "setAttrs" /\ wrote'[Handler] =>
       /\ node'.exists
       /\ Has(node', IDAttr, NodeID)
       /\ Has(node', ParentidAttr, NodeParentID)
       /\ Has(node', NameAttr, Filename)
       /\ Has(node', TypeAttr, "file")
       /\ Has(node', BlobIDAttr, Handler)
       /\ Has(node', BlobsizeAttr, Size(Handler))
       /\ Has(node', StatusPrefix, <<"processing", Handler>>)
       /\ Has(node', MTimeAttr, IF MTimeOf = ZeroTime THEN Now ELSE MTimeOf)
    ]_vars

C19_Witness ==
  /\ spc[Handler] = "defer" /\ wrote[Handler] /\ err[Handler] = ""
  /\ In(Handler).technical = {TRUE}
  /\ MTimeOf # ZeroTime /\ Has(node, MTimeAttr, MTimeOf)

\* C20: when CreateNodeForUpload succeeds, the session's sizeDiff is the
\* new size minus the blob size the target had when it existed (which can
\* be negative), and the new size when the target is new
C20_SizeDiff ==
  [][spc[Handler] = "setAttrs" /\ wrote'[Handler] /\ err'[Handler] = "" =>
       sinfo'[Handler].sizeDiff =
         IF unlock[Handler] = "update"
         THEN <<Size(Handler) - Blobsize(node)>>
         ELSE <<Size(Handler)>>]_vars

C20_Witness ==
  /\ spc[Handler] = "defer" /\ wrote[Handler] /\ err[Handler] = ""
  /\ unlock[Handler] = "update" /\ sinfo[Handler].sizeDiff = <<-1>>

\* the session is past the exclusive create of initNewNode and has not
\* failed
Created(s) ==
  /\ unlock[s] = "init"
  /\ spc[s] \in {"iQuota", "setAttrs", "defer"}
  /\ err[s] = ""

\* C21: of the sessions that run CreateNodeForUpload for a target that does
\* not exist, only the one that finds no node file gets past the exclusive
\* create, and no other session is past it then; a session that finds the
\* file returns AlreadyExists and none of its steps changes the node and the
\* attributes the winner wrote
C21_ExclusiveCreate ==
  [][\A s \in Sessions :
       /\ (spc[s] = "iCreate" /\ spc'[s] # "iCreate")
            => IF node.exists
               THEN /\ err'[s] = "AlreadyExists"
                    /\ spc'[s] = "defer"
                    /\ node' = node
               ELSE /\ spc'[s] = "iQuota"
                    /\ \A t \in Sessions \ {s} : ~Created(t)
       /\ (err[s] = "AlreadyExists" /\ spc'[s] # spc[s]) => node' = node
       /\ node.exists => node'.exists]_vars

\* a session lost the race: it returns AlreadyExists while the node carries
\* the attributes of the other session
C21_Witness ==
  \E s, t \in Sessions :
    /\ s # t
    /\ unlock[s] = "init" /\ spc[s] = "defer" /\ err[s] = "AlreadyExists"
    /\ Has(node, BlobIDAttr, t)
    /\ Has(node, StatusPrefix, ProcessingStatus(t))

\* C36: when the quota check fails for a target that does not exist yet,
\* CreateNodeForUpload returns the quota error, has written no attributes,
\* recorded no sizeDiff and not persisted the session, and there is no node
\* file of the target
C36_QuotaFailureLeavesNothing ==
  (spc[Handler] = "defer" /\ unlock[Handler] = "init"
     /\ err[Handler] = "InsufficientStorage")
    => /\ ~wrote[Handler]
       /\ sinfo[Handler].sizeDiff = <<>>
       /\ ~sinfo[Handler].persisted
       /\ ~node.exists

\* ---- the upload store ---------------------------------------------------

ListedCount(list, id) == Cardinality({k \in DOMAIN list : list[k].ID = id})

\* C27: List returns exactly one session for every .info record under the
\* uploads directory and no session without a record
C27_ListAll ==
  [][got'.op = "List"
       => \A i \in DOMAIN StoreIDs :
            ListedCount(got'.val, StoreIDs[i])
              = IF uploads[StoreIDs[i]].info THEN 1 ELSE 0]_vars

\* ---- post-processing ----------------------------------------------------

Busy(w) == wpc[w] \notin {"idle", "stopped"}
ForUpload == IsPPF /\ ev.UploadID = UploadID
TheUpload == uploads[UploadID]

\* the three conditions of an upload in flight
Processing == pnode.exists /\ pnode.status = UploadID
Restorable == pnode.exists /\ TheUpload.existed /\ pnode.revs # {}
Buffered == TheUpload.bin
Conditions ==
  {c \in {"processing", "restorable", "buffered"} :
     \/ c = "processing" /\ Processing
     \/ c = "restorable" /\ Restorable
     \/ c = "buffered" /\ Buffered}

\* the session of the upload is persisted and no worker has reported on it
InFlight == TheUpload.info /\ stream = <<>>

C24_InvalidateAfterChange ==
  [][\A w \in Consumers :
       (wpc[w] \in {"cleanup", "publish"} /\ wpc'[w] # wpc[w])
         => pnode' = pnode]_vars

\* ---- virus scan results -------------------------------------------------

\* an on-demand scan (no upload id) that found the resource infected
OnDemandDelete ==
  IsVSF /\ ev.UploadID = "" /\ ev.Outcome = "delete" /\ ev.ErrorMsg = ""

\* C28: when a worker has handled the on-demand delete of a resource with
\* prior versions and no call failed, the newest prior version is the live
\* node, the infected revision is deleted, the earlier revisions are kept,
\* the resource is not trashed and the stat cache entry of the node is gone
C28_NewestVersionRestored ==
  [][\A w \in Consumers :
       (OnDemandDelete /\ ~iofault'
          /\ wpc[w] = "deleteRevisions" /\ wpc'[w] = "idle")
         => /\ pnode'.exists /\ ~pnode'.trashed
            /\ pnode'.mtime = OldMTime
            /\ UploadMTime \notin pnode'.revs
            /\ {OlderMTime, OldMTime} \subseteq pnode'.revs
            /\ NodeID \notin cache']_vars

\* C29: in the handling of an on-demand delete a worker gets to the purge
\* only by a delete that moved the node to the trash, a failed delete ends
\* the handling, the trash item of the node goes away only in the purge step
\* of a worker, and no step writes scan data
C29_TrashThenPurge ==
  [][OnDemandDelete
       => /\ \A w \in Consumers :
               /\ (wpc'[w] = "purge" /\ wpc[w] # "purge")
                    => /\ wpc[w] = "delete"
                       /\ pnode.exists /\ ~pnode'.exists /\ pnode'.trashed
               /\ (wpc[w] = "delete" /\ wpc'[w] # "delete" /\ pnode' = pnode)
                    => wpc'[w] = "idle"
          /\ (pnode.trashed /\ ~pnode'.trashed)
               => \E w \in Consumers : wpc[w] = "purge" /\ wpc'[w] = "idle"
          /\ pnode'.scandata = pnode.scandata]_vars

\* the resource without versions was trashed and purged, its stat cache
\* entry is gone
C29_Witness ==
  /\ OnDemandDelete /\ pnode.revs = {} /\ ~iofault
  /\ ~pnode.exists /\ ~pnode.trashed /\ ~pnode.scandata
  /\ NodeID \notin cache

\* a scan result that does not delete: of an upload, or on demand with
\* another outcome than delete
NotDeleting ==
  IsVSF /\ ev.ErrorMsg = "" /\ (ev.UploadID # "" \/ ev.Outcome # "delete")

C3_FailedFlag ==
  [][\A w \in Consumers :
       /\ wpc[w] = "outcome" /\ wpc'[w] # "outcome"
            => (~wst'[w].failed
                  <=> /\ ev.Outcome = "continue"
                      /\ TheUpload.bin /\ ~TheUpload'.bin /\ pnode'.blob)
       /\ wpc[w] \in {"readNode", "removeStat", "cleanup"}
            => wst'[w].failed = wst[w].failed
       /\ Len(stream') > Len(stream) /\ wpc[w] = "publish" /\ wpc'[w] = "idle"
            => stream'[Len(stream')].Failed = wst[w].failed]_vars

C3_Witness ==
  /\ ForUpload /\ ev.Outcome = "continue"
  /\ Len(stream) >= 1 /\ ~stream[1].Failed /\ pnode.blob

\* C4: a replayed PostprocessingFinished yields at most one UploadReady for
\* its upload id
C4_AtMostOneUploadReady ==
  Cardinality({i \in 1..Len(stream) : stream[i].UploadID = ev.UploadID}) <= 1

\* the state the workers were started in
Initial(existed) ==
  [node |-> [exists |-> TRUE, status |-> UploadID, mtime |-> UploadMTime,
             blob |-> FALSE, revs |-> IF existed THEN {OlderMTime, OldMTime} ELSE {},
             trashed |-> FALSE, scandata |-> FALSE],
   up |-> [info |-> TRUE, bin |-> TRUE, existed |-> existed, offset |-> 0,
           size |-> 1]]

\* node and upload after one undisturbed handling of the event
SingleHandling(outcome, existed) ==
  LET i == Initial(existed)
      f == IF outcome = "continue" THEN Finalize(i.node, i.up) ELSE i
      flags == OutcomeFlags(outcome, TRUE)
  IN Cleanup(f.node, f.up, UploadID, flags.failed, flags.keepUpload,
             UnmarkPostprocessing)

Quiescent == ch = 0 /\ \A w \in Consumers : ~Busy(w)

\* C5: when the replayed event is handled by concurrent workers, node and
\* upload end in the state a single handling leaves
C5_ReplayConverges ==
  ForUpload /\ Quiescent /\ delivered >= 1 /\ ~iofault
    => [node |-> pnode, up |-> TheUpload]
         = SingleHandling(ev.Outcome, TheUpload.existed)

\* C6: on abort, cleanup runs with revert and keep: the node gets its prior
\* attributes back, info record and bin stay, Get still finds the upload
C6_AbortKeepsUpload ==
  [][\A w \in Consumers :
       ForUpload /\ ev.Outcome = "abort"
       /\ wpc[w] = "cleanup" /\ wpc'[w] # "cleanup"
         => /\ wst[w].failed /\ wst[w].keepUpload
            /\ TheUpload'.info /\ TheUpload'.bin
            /\ (Get(UploadID) = "ok")'
            /\ TheUpload.existed => pnode'.mtime = OldMTime]_vars

C6_Witness ==
  \E w \in Consumers :
    /\ ForUpload /\ ev.Outcome = "abort" /\ wpc[w] = "publish"
    /\ TheUpload.existed /\ pnode.mtime = OldMTime
    /\ Get(UploadID) = "ok"

\* C7: on delete, cleanup runs with revert and without keep: the node gets
\* its prior attributes back, info record and bin are removed, and Get
\* returns NotFound from then on
C7_DeleteRemovesUpload ==
  [][/\ \A w \in Consumers :
          ForUpload /\ ev.Outcome = "delete"
          /\ wpc[w] = "cleanup" /\ wpc'[w] # "cleanup"
            => /\ wst[w].failed /\ ~wst[w].keepUpload
               /\ ~TheUpload'.info /\ ~TheUpload'.bin
               /\ (Get(UploadID) = "NotFound")'
               /\ TheUpload.existed => pnode'.mtime = OldMTime
     /\ ForUpload /\ ev.Outcome = "delete" /\ ~TheUpload.info
          => (Get(UploadID) = "NotFound")']_vars

C7_Witness ==
  \E w \in Consumers :
    /\ ForUpload /\ ev.Outcome = "delete" /\ wpc[w] = "get"
    /\ TheUpload.existed /\ pnode.mtime = OldMTime
    /\ Get(UploadID) = "NotFound"

\* the worker handles an unknown outcome, or a continue whose Finalize
\* returned an error
AbortLike(w) ==
  \/ ev.Outcome \notin {"abort", "continue", "delete"}
  \/ ev.Outcome = "continue" /\ wst[w].failed

\* C8: an unknown outcome and a continue whose Finalize fails are handled
\* as abort: failed is set, the node is reverted, the session is kept
C8_HandledAsAbort ==
  [][\A w \in Consumers :
       /\ ForUpload /\ wpc[w] = "outcome" /\ wpc'[w] # "outcome"
          /\ \/ ev.Outcome \notin {"abort", "continue", "delete"}
             \/ ev.Outcome = "continue" /\ ~(TheUpload.bin /\ ~TheUpload'.bin)
            => wst'[w].failed /\ wst'[w].keepUpload
       /\ ForUpload /\ AbortLike(w)
          /\ wpc[w] = "cleanup" /\ wpc'[w] # "cleanup"
            => /\ wst[w].failed /\ wst[w].keepUpload
               /\ TheUpload'.info = TheUpload.info
               /\ TheUpload'.bin = TheUpload.bin
               /\ TheUpload.existed => pnode'.mtime = OldMTime]_vars

C8_Witness ==
  \E w \in Consumers :
    /\ ForUpload /\ ev.Outcome = "continue" /\ wst[w].failed
    /\ wpc[w] = "publish"
    /\ TheUpload.existed /\ pnode.mtime = OldMTime /\ TheUpload.info

\* C9: a worker leaves the loop only when the channel is closed and drained;
\* after logging an error it is still in the loop
C9_WorkerNeverStopsOnError ==
  [][\A w \in Consumers :
       /\ wpc'[w] = "stopped" /\ wpc[w] # "stopped"
            => closed /\ ch = 0 /\ wpc[w] = "idle"
       /\ wlog'[w] /\ ~wlog[w] => wpc'[w] # "stopped"
       /\ wpc[w] = "stopped" => wpc'[w] = "stopped"]_vars

C9_Witness ==
  \E w \in Consumers :
    wlog[w] /\ wpc[w] \in {"get", "scan"} /\ delivered = MaxDeliveries

\* ---- the tree operations

\* the operations that change the tree, and those that ask for a permission
MutatingOps == {"CreateDir", "TouchFile", "CreateReference", "Move", "Delete"}
PermissionOps ==
  {"CreateDir", "TouchFile", "Move", "Delete", "SetLock", "RefreshLock",
   "Unlock"}

\* the nodes whose lock a call has to respect: the node it changes, and for
\* a node it creates in the share folder, the share folder
Guarded(op, p, a) ==
  IF op \in {"CreateDir", "CreateReference"} THEN {ShareFolder}
  ELSE IF op = "Move" THEN {p, a}
  ELSE {p}

\* a node of the tree is locked and the context does not carry its lock id
LockedFor(n, c) == tree[n].lock \notin {"", c.lockID}

\* C31: an operation that changes the tree has checked the lock first: the
\* tree changes only when no node the call has to respect is locked, or the
\* context carries the lock id
C31_LockCheckedBeforeMutation ==
  [][(got'.op \in MutatingOps /\ tree' # tree)
       => \A n \in Guarded(got'.op, got'.id, got'.val[1].arg) :
            ~LockedFor(n, got'.val[1].ctx)]_vars

PermissionAnswer(c) ==
  IF "denied" \in {c.perm, c.perm2} THEN "PermissionDenied"
  ELSE IF "error" \in {c.perm, c.perm2} THEN "InternalError"
  ELSE ""

\* the call gets as far as the permission check that fails
ReachesPermission(op, p, a, c) ==
  /\ c.resolved
  /\ IF op = "CreateDir" THEN p # "/" /\ tree[ShareFolder].exists
     ELSE IF op = "TouchFile" THEN tree[ShareFolder].exists
     ELSE IF op = "Move"
     THEN tree[p].exists /\ (c.perm = "ok" => ~tree[a].exists)
     ELSE IF op \in {"RefreshLock", "Unlock"} THEN a # "" /\ tree[p].exists
     ELSE tree[p].exists

\* C33: when the permission check of CreateDir, TouchFile, Move, Delete,
\* SetLock, RefreshLock or Unlock says no, the call returns PermissionDenied,
\* when the check itself fails it returns InternalError, and in both cases
\* the tree and its locks stay as they are
C33_PermissionChecked ==
  [][(got'.op \in PermissionOps /\ PermissionAnswer(got'.val[1].ctx) # "")
       => /\ tree' = tree
          /\ ReachesPermission(got'.op, got'.id, got'.val[1].arg,
                               got'.val[1].ctx)
               => got'.err = PermissionAnswer(got'.val[1].ctx)]_vars

C33_Witness ==
  /\ got.op = "Delete"
  /\ got.err = "PermissionDenied"
  /\ tree[got.id].exists
  /\ ~LockedFor(got.id, got.val[1].ctx)

\* C34: CreateDir of a name that exists and Move onto a target that exists
\* leave the tree as it is, and return AlreadyExists when the lookups, the
\* permission check before it and, for CreateDir, the lock check passed
C34_AlreadyExists ==
  [][(\/ got'.op = "CreateDir" /\ got'.id \in ChildPaths
                               /\ tree[got'.id].exists
      \/ got'.op = "Move" /\ tree[got'.val[1].arg].exists)
       => /\ tree' = tree
          /\ (/\ got'.val[1].ctx.resolved
              /\ got'.val[1].ctx.perm = "ok"
              /\ got'.op = "CreateDir"
                   => ~LockedFor(ShareFolder, got'.val[1].ctx)
              /\ got'.op = "Move" => tree[got'.id].exists)
               => got'.err = "AlreadyExists"]_vars

C34_Witness ==
  /\ got.op = "CreateDir"
  /\ got.err = "AlreadyExists"
  /\ tree[got.id].exists
  /\ ~tree[got.id].dir

\* C35: TouchFile under a parent that does not exist creates no node, and
\* returns NotFound when the lookup of the parent succeeded
C35_TouchFileNoParent ==
  [][(got'.op = "TouchFile" /\ ~tree[ShareFolder].exists)
       => /\ tree' = tree
          /\ got'.val[1].ctx.resolved => got'.err = "NotFound"]_vars

C35_Witness ==
  /\ got.op = "TouchFile"
  /\ got.err = "NotFound"
  /\ ~tree[ShareFolder].exists
  /\ \A p \in Paths : ~tree[p].exists


\* ---- the quota of a space

\* C39: for a numeric quota GetQuota answers total = quota, inUse = tree
\* size and 0 <= remaining <= max(0, total - inUse)
C39_RemainingWithinQuota ==
  (got.op = "GetQuota" /\ got.id = "number" /\ got.err = "")
    => /\ got.val[1].total = got.val[1].quota
       /\ got.val[1].inUse = got.val[1].size
       /\ got.val[1].remaining >= 0
       /\ got.val[1].remaining
            <= IF got.val[1].total >= got.val[1].inUse
               THEN got.val[1].total - got.val[1].inUse ELSE 0


\* ---- the events interceptor

\* C40: the interceptor emits an event only for one of the four responses
\* of a handler that returned no error and the status code OK, and then the
\* event of that response; whether or not the event could be published, the
\* caller gets the handler's response and error
C40_EmitOnlyOnSuccess ==
  got.op = "Intercept"
    => /\ got.val[1].ev # ""
            => /\ got.val[1].handler.err = ""
               /\ got.val[1].handler.code = "OK"
               /\ got.val[1].ev = EventOf(got.val[1].handler.res)
       /\ (got.val[1].handler.err # "" \/ got.val[1].handler.code # "OK")
            => got.val[1].ev = ""
       /\ got.val[1].res = got.val[1].handler.res
       /\ got.val[1].code = got.val[1].handler.code
       /\ got.err = got.val[1].handler.err

C40_Witness ==
  /\ got.op = "Intercept"
  /\ got.val[1].ev = "ShareRemoved"
  /\ ~got.val[1].published
  /\ got.val[1].logged
  /\ got.err = ""


\* ---- the share manager

\* two shares have the same key: owner, resource and grantee
SameKey(a, b) ==
  /\ (a.owner = b.owner \/ a.owner = b.creator)
  /\ a.resource = b.resource
  /\ a.grantee = b.grantee

UniqueKeys ==
  \A i, j \in DOMAIN shares : i # j => ~SameKey(shares[i], shares[j])

\* C37: the manager never holds two shares with the same key, whatever the
\* interleaving of the Share calls
C37_NoTwoSharesPerKey == UniqueKeys

\* the shares the user received and that pass the filter
ReceivedBy(user, filter) ==
  {i \in DOMAIN shares :
     /\ ~IsCreatedByUser(shares[i], user)
     /\ IsGrantedToUser(shares[i], user)
     /\ filter \in {"", shares[i].resource}}

\* of these, the ones to list: a group share is hidden by a received user
\* share on the same resource with the same state
ToList(user, filter) ==
  {shares[i] : i \in
     {i \in ReceivedBy(user, filter) :
        ~(/\ shares[i].grantee.type = "group"
          /\ \E j \in ReceivedBy(user, filter) :
               /\ shares[j].grantee.type = "user"
               /\ shares[j].resource = shares[i].resource
               /\ shares[j].state = shares[i].state)}}

\* C38: for stored shares with distinct keys, in any order,
\* ListReceivedShares does not fail and returns each share to list once and
\* no other
C38_ListReceived ==
  [][(/\ got'.op = "ListReceivedShares"
      /\ UNCHANGED <<shares, callers>>
      /\ UniqueKeys)
       => /\ got'.err = ""
          /\ {got'.val[k] : k \in DOMAIN got'.val} = ToList(User, got'.id)
          /\ Len(got'.val) = Cardinality(ToList(User, got'.id))]_vars

====
